---------------------------- MODULE Spec2Model ----------------------------
(***************************************************************************)
(* Cafe Delicia: phone ordering conversation.                              *)
(*                                                                         *)
(* The repository holds several revisions of the same three files          *)
(* (server.js, AsistenteIA.js, Database.js).  The model covers six         *)
(* deployments, chosen once in Init by `variante`:                         *)
(*   "llm"    unified /twilio-conversation loop (unnamed/part_005) with    *)
(*            the Gemini-backed AsistenteIA (unnamed/part_000)             *)
(*   "reglas" the same loop with the rule-based AsistenteIA                *)
(*            (AsistenteIA.js, second class)                               *)
(*   "fases"  the multi-phase server (server.js): /twilio-voice,           *)
(*            /twilio-process-order-base, -customizations, -upsell,        *)
(*            -payment                                                     *)
(*   "simple" the single-request server (unnamed/part_004) with the       *)
(*            keyword AsistenteIA (unnamed/part_002)                       *)
(*   "gemini" the same server with the AsistenteIA that calls Gemini      *)
(*            with retries (unnamed/part_001)                              *)
(*   "transaccional" the same server writing orders with the               *)
(*            transactional Database.js (second class), the extractor's    *)
(*            result drawn from ItemsPedido                                *)
(* Money is kept in cents.                                                 *)
(***************************************************************************)
EXTENDS Integers, Sequences, FiniteSets, TLC

VARIABLES
    variante,           \* which revision of server.js / AsistenteIA.js runs
    apiKey,             \* part_001: whether process.env.GEMINI_API_KEY is set
    ADMIN_API_KEY,      \* server.js line 18: process.env.ADMIN_API_KEY
    respuestaAdmin,     \* the last request to an admin route and its answer
    conversationState,  \* server.js: const conversationState = {}  (CallSid -> state)
    enCurso,            \* requests suspended on an await (CallSid -> continuation)
    duplicada,          \* a second request of a call whose turn is in progress
    llamada,            \* the voice transport's view of each call
    respuesta,          \* responses sent for the current turn of each call
    invocaciones,       \* every call of db.agregarOrden, with its arguments
    ordenes,            \* rows of the table `ordenes`
    orden_items,        \* Database.js: rows of the table `orden_items`
    notificaciones      \* every call of enviarNotificacion

vars == <<variante, apiKey, ADMIN_API_KEY, respuestaAdmin, conversationState, enCurso, duplicada, llamada, respuesta,
          invocaciones, ordenes, orden_items, notificaciones>>

-----------------------------------------------------------------------------
(* Bounds and inputs *)

Calls == {"CA1", "CA2"}

\* longest item list the extractor returns in the model
MaxItems == 2

\* db.agregarOrden is called at most this many times in a behaviour
MaxInvocaciones == 2

Variantes == {"llm", "reglas", "fases", "simple", "gemini", "transaccional"}

ClienteAnonimo == "Cliente Anónimo"
Undefined == "undefined"

Caller(c) == IF c = "CA1" THEN "+5215550001" ELSE "+5215550002"

Capuchino == "Capuchino"
Muffin == "Muffin de Arándanos"
Pizza == "Pizza"            \* a name that is on no menu

JuanPerez == "Juan Perez"
Telefono == "5512345678"


-----------------------------------------------------------------------------
(* Menus and price tables *)

\* part_000 getMenuContexto: the menu the Gemini assistant is given
getMenuContexto ==
    << [nombre |-> "Capuchino",           precio |-> 450, area_preparacion |-> "barra"],
       [nombre |-> "Latte Vainilla",      precio |-> 500, area_preparacion |-> "barra"],
       [nombre |-> "Té Chai",             precio |-> 400, area_preparacion |-> "barra"],
       [nombre |-> "Muffin de Arándanos", precio |-> 350, area_preparacion |-> "cocina"],
       [nombre |-> "Croissant",           precio |-> 250, area_preparacion |-> "cocina"] >>

\* AsistenteIA.js knowledgeBase.productos (rule-based assistant)
productos ==
    << [nombre |-> "Café Americano",      precio |-> 350, area |-> "barra"],
       [nombre |-> "Capuchino",           precio |-> 450, area |-> "barra"],
       [nombre |-> "Latte de Vainilla",   precio |-> 500, area |-> "barra"],
       [nombre |-> "Sándwich de Pavo",    precio |-> 500, area |-> "cocina"],
       [nombre |-> "Muffin de Arándanos", precio |-> 300, area |-> "cocina"] >>

\* AsistenteIA.js knowledgeBase.personalizaciones
personalizaciones ==
    << [id |-> "shot_espresso",  precio |-> 100],
       [id |-> "leche_almendra", precio |-> 75],
       [id |-> "leche_avena",    precio |-> 75] >>

\* Database.js verificarTablas: rows inserted into the table `menu`
initialMenu ==
    << [nombre |-> "Café Americano",      area_preparacion |-> "barra"],
       [nombre |-> "Latte de Vainilla",   area_preparacion |-> "barra"],
       [nombre |-> "Muffin de Arándanos", area_preparacion |-> "cocina"],
       [nombre |-> "Sándwich de Pavo",    area_preparacion |-> "cocina"] >>

Range(s) == {s[i] : i \in DOMAIN s}

RECURSIVE SumSeq(_)
SumSeq(s) == IF s = <<>> THEN 0 ELSE Head(s) + SumSeq(Tail(s))

\* price of a product name in the table of the running assistant; 0 if unknown
PrecioProducto(v, nombre) ==
    LET tabla == IF v = "llm" THEN getMenuContexto ELSE productos
        filas == {i \in DOMAIN tabla : tabla[i].nombre = nombre}
    IN  IF filas = {} THEN 0 ELSE tabla[CHOOSE i \in filas : TRUE].precio

PrecioPersonalizacion(id) ==
    LET filas == {i \in DOMAIN personalizaciones : personalizaciones[i].id = id}
    IN  IF filas = {} THEN 0
        ELSE personalizaciones[CHOOSE i \in filas : TRUE].precio

AreaProducto(nombre) ==
    LET filas == {i \in DOMAIN productos : productos[i].nombre = nombre}
    IN  IF filas = {} THEN "" ELSE productos[CHOOSE i \in filas : TRUE].area

\* AsistenteIA.js calcularTotal: items and customizations are kept by name/id
calcularTotal(items, customs) ==
    SumSeq([i \in DOMAIN items |-> PrecioProducto("reglas", items[i])])
    + SumSeq([i \in DOMAIN customs |-> PrecioPersonalizacion(customs[i])])

-----------------------------------------------------------------------------
(* Session registry: part_005 / server.js conversationState *)

Existe(cs, callSid) == callSid \in DOMAIN cs

\* part_005 getOrCreateState / server.js createInitialState: the fresh state
newState(caller, callSid) ==
    [ caller |-> caller,
      callSid |-> callSid,
      items |-> <<>>,
      personalizaciones |-> <<>>,
      total |-> 0,
      stage |-> "INITIAL_ORDER",
      nombreCliente |-> ClienteAnonimo,
      telefonoCliente |-> caller ]

\* part_005 getOrCreateState: the registry after the call
getOrCreateState(cs, caller, callSid) ==
    IF Existe(cs, callSid) THEN cs
    ELSE (callSid :> newState(caller, callSid)) @@ cs

\* server.js createInitialState: always overwrites
createInitialState(cs, caller, callSid) ==
    (callSid :> newState(caller, callSid)) @@ cs

\* { ...a, ...b }
Spread(a, b) ==
    [k \in DOMAIN a \cup DOMAIN b |-> IF k \in DOMAIN b THEN b[k] ELSE a[k]]

\* variant without the test for an existing session
updateState_crea(cs, callSid, updates) ==
    (callSid :> (IF Existe(cs, callSid) THEN Spread(cs[callSid], updates)
                 ELSE updates))
    @@ cs

updateState(cs, callSid, updates) ==
    IF Existe(cs, callSid)
    THEN [cs EXCEPT ![callSid] = Spread(cs[callSid], updates)]
    ELSE cs

\* variant that empties the registry
deleteState_todas(cs, callSid) == <<>>

\* variant that leaves the registry as it is
deleteState_nada(cs, callSid) == cs

deleteState(cs, callSid) ==
    [k \in DOMAIN cs \ {callSid} |-> cs[k]]


-----------------------------------------------------------------------------
(* Gemini-backed assistant: unnamed/part_000 *)

\* part_000 JSON_SCHEMA: the stages the extractor is told to use
EtapasIA == {"INITIAL_ORDER", "CUSTOMIZATION", "UPSELL_FINAL", "CONFIRMATION",
             "IDENTIFICATION", "FINALIZED"}

NombresIA == {Capuchino, Pizza}

\* the code only tests a stage against 'FINALIZED': two other stages stand
\* for the rest
EtapasProbadas == {"CONFIRMATION", "IDENTIFICATION", "FINALIZED"}

\* menu items first, then at most one name the menu does not hold
EnOrden(s) == \A i \in 1..(Len(s) - 1) : s[i] # Pizza

\* item lists of the extractor: up to MaxItems names, repeats allowed
ListasIA ==
    {s \in UNION {[1..k -> NombresIA] : k \in 0..MaxItems} : EnOrden(s)}

\* stands for the text of llm_response_text, which the code passes on unread
TextoIA == "llm_response_text"

\* the parsed JSON bodies that carry every field the schema requires; a
\* missing optional field is "" (falsy)
CuerposCompletos ==
    [ next_stage        : EtapasProbadas,
      items_update      : ListasIA,
      nombre_cliente    : {"", JuanPerez},
      telefono_cliente  : {"", Telefono},
      llm_response_text : {TextoIA} ]

\* the parsed body "{}": JSON.parse accepts it and every field read of it
\* gives undefined; items_update || [] (line 118) makes the items empty
CuerpoVacio ==
    [ next_stage        |-> Undefined,
      items_update      |-> <<>>,
      nombre_cliente    |-> "",
      telefono_cliente  |-> "",
      llm_response_text |-> Undefined ]

\* what JSON.parse (line 113) can return to the code
AiResponses == CuerposCompletos \cup {CuerpoVacio}

\* part_000 procesarConversacion, try branch (lines 113-128)
nuevoEstado(estadoActual, aiResponse) ==
    Spread(estadoActual,
      [ stage |-> aiResponse.next_stage,
        items |-> aiResponse.items_update,
        nombreCliente |-> IF aiResponse.nombre_cliente # ""
                          THEN aiResponse.nombre_cliente
                          ELSE estadoActual.nombreCliente,
        \* reads estadoActual.telefonocliente, a key no state has
        telefonoCliente |-> IF aiResponse.telefono_cliente # ""
                            THEN aiResponse.telefono_cliente
                            ELSE Undefined ])

\* variant of the catch block that starts the order over
procesarConversacion_reinicia(estadoActual, fallo, aiResponse) ==
    IF fallo
    THEN [ mensaje |-> "disculpa_ia",
           estadoActualizado |->
               Spread(estadoActual, [stage |-> "INITIAL_ORDER", items |-> <<>>]) ]
    ELSE [mensaje |-> aiResponse.llm_response_text,
          estadoActualizado |-> nuevoEstado(estadoActual, aiResponse)]

\* part_000 procesarConversacion: fallo = axios rejected, empty text or
\* JSON.parse threw; all of them land in the catch block
procesarConversacion(estadoActual, fallo, aiResponse) ==
    IF fallo
    THEN [mensaje |-> "disculpa_ia", estadoActualizado |-> estadoActual]
    ELSE [mensaje |-> aiResponse.llm_response_text,
          estadoActualizado |-> nuevoEstado(estadoActual, aiResponse)]

-----------------------------------------------------------------------------
(* Rule-based assistant: AsistenteIA.js, second class *)

\* A transcript is kept as what the keyword and regex tests find in it
Transcripcion(preg, prods, customs, nombre, telefono, pago, si, no) ==
    [ preg |-> preg, prods |-> prods, customs |-> customs, nombre |-> nombre,
      telefono |-> telefono, pago |-> pago, si |-> si, no |-> no ]

Transcripciones ==
    { Transcripcion(FALSE, {Capuchino}, {}, "", "", "", FALSE, FALSE),       \* "quiero un capuchino"
      Transcripcion(FALSE, {Muffin}, {}, "", "", "", FALSE, FALSE),           \* "un muffin"
      Transcripcion(FALSE, {}, {"leche_avena"}, "", "", "", FALSE, FALSE),    \* "con leche de avena"
      Transcripcion(TRUE, {"Sándwich de Pavo"}, {}, "", "", "", FALSE, FALSE),\* "qué lleva el sándwich"
      Transcripcion(FALSE, {}, {}, "", "", "", TRUE, FALSE),                  \* "sí, claro"
      Transcripcion(FALSE, {}, {}, "", "", "", FALSE, TRUE),                  \* "no, eso es todo"
      Transcripcion(FALSE, {}, {}, "", "", "llegar", FALSE, FALSE),           \* "pago al llegar"
      Transcripcion(FALSE, {}, {}, JuanPerez, "", "", FALSE, FALSE),          \* "Juan Perez"
      Transcripcion(FALSE, {}, {}, "", Telefono, "", FALSE, FALSE),           \* "5512345678"
      Transcripcion(FALSE, {}, {}, "", "", "", FALSE, FALSE) }                \* "mmm"

determinarIntencion(t) ==
    IF t.preg THEN "PREGUNTANDO"
    ELSE IF t.prods # {} THEN "ORDENANDO"
    ELSE IF t.customs # {} THEN "ORDENANDO"
    ELSE IF t.nombre # "" THEN "IDENTIFICACION"
    ELSE IF t.telefono # "" THEN "IDENTIFICACION"
    ELSE IF t.pago # "" THEN "PAGO"
    ELSE IF t.si THEN "CONFIRMANDO_SI"
    ELSE IF t.no THEN "CONFIRMANDO_NO"
    ELSE "DESCONOCIDO"

extraerDatosCliente(t) == [nombre |-> t.nombre, telefono |-> t.telefono]

procesarPedido(t, estadoActual) ==
    LET nombres == [i \in DOMAIN productos |-> productos[i].nombre]
        ids == [i \in DOMAIN personalizaciones |-> personalizaciones[i].id]
        EsNuevo(n) == n \in t.prods /\ n \notin Range(estadoActual.items)
        EsNueva(p) == p \in t.customs
                      /\ p \notin Range(estadoActual.personalizaciones)
        itemsEncontrados == SelectSeq(nombres, EsNuevo)
        personalizacionesEncontradas == SelectSeq(ids, EsNueva)
        itemsActualizados == estadoActual.items \o itemsEncontrados
        personalizacionesActualizadas ==
            estadoActual.personalizaciones \o personalizacionesEncontradas
        totalActualizado ==
            calcularTotal(itemsActualizados, personalizacionesActualizadas)
        tieneBebida ==
            \E i \in DOMAIN itemsActualizados :
                AreaProducto(itemsActualizados[i]) = "barra"
        tieneComida ==
            \E i \in DOMAIN itemsActualizados :
                AreaProducto(itemsActualizados[i]) = "cocina"
        stage == IF tieneBebida /\ estadoActual.stage = "INITIAL_ORDER"
                 THEN "CUSTOMIZATION"
                 ELSE IF tieneBebida /\ tieneComida THEN "UPSELL_FINAL"
                 ELSE "UPSELL"
    IN  [ mensaje |-> "anotado",
          estadoActualizado |->
            Spread(estadoActual,
              [ items |-> itemsActualizados,
                personalizaciones |-> personalizacionesActualizadas,
                total |-> totalActualizado,
                stage |-> stage ]) ]

responderPregunta(t, estadoActual) ==
    [mensaje |-> "respuesta_pregunta", estadoActualizado |-> estadoActual]

\* variant that takes a bare "yes" as the confirmation of the order
procesarConfirmacionPositiva_confirma(estadoActual) ==
    [ mensaje |-> "que_mas",
      estadoActualizado |-> Spread(estadoActual, [stage |-> "IDENTIFICATION"]) ]

procesarConfirmacionPositiva(estadoActual) ==
    [ mensaje |-> IF estadoActual.stage \in {"UPSELL", "UPSELL_FINAL"}
                  THEN "que_mas" ELSE "si_a_que",
      estadoActualizado |-> estadoActual ]

generarResumen(estadoActual) ==
    [ mensaje |-> "resumen_total",
      estadoActualizado |-> Spread(estadoActual, [stage |-> "CONFIRMATION"]) ]

procesarConfirmacionNegativa(estadoActual) == generarResumen(estadoActual)

procesarPago(t, estadoActual) ==
    [ mensaje |-> IF t.pago = "ahora" THEN "pago_ahora" ELSE "pago_llegar",
      estadoActualizado |-> Spread(estadoActual, [stage |-> "IDENTIFICATION"]) ]

procesarIdentificacion(t, estadoActual) ==
    LET datos == extraerDatosCliente(t)
        conNombre == IF datos.nombre # ""
                     THEN Spread(estadoActual, [nombreCliente |-> datos.nombre])
                     ELSE estadoActual
        conTelefono == IF datos.telefono # ""
                       THEN Spread(conNombre, [telefonoCliente |-> datos.telefono])
                       ELSE conNombre
    IN  IF datos.nombre = "" /\ datos.telefono = ""
        THEN [mensaje |-> "repita_datos", estadoActualizado |-> conTelefono]
        ELSE [ mensaje |-> "datos_registrados",
               estadoActualizado |-> Spread(conTelefono, [stage |-> "FINALIZED"]) ]

\* AsistenteIA.js procesarConversacion (lines 224-255)
procesarConversacionReglas(t, estadoActual) ==
    LET intencion == determinarIntencion(t)
    IN  CASE intencion = "ORDENANDO" -> procesarPedido(t, estadoActual)
          [] intencion = "PREGUNTANDO" -> responderPregunta(t, estadoActual)
          [] intencion = "CONFIRMANDO_SI" -> procesarConfirmacionPositiva(estadoActual)
          [] intencion = "CONFIRMANDO_NO" -> procesarConfirmacionNegativa(estadoActual)
          [] intencion = "PAGO" -> procesarPago(t, estadoActual)
          [] intencion = "IDENTIFICACION" -> procesarIdentificacion(t, estadoActual)
          [] OTHER -> [mensaje |-> "no_entendi", estadoActualizado |-> estadoActual]


-----------------------------------------------------------------------------
(* Database.js (JSONB revision, unnamed/part_003) and notifications *)

AreaMenu(nombre) ==
    LET filas == {i \in DOMAIN initialMenu : initialMenu[i].nombre = nombre}
    IN  IF filas = {} THEN "general"
        ELSE initialMenu[CHOOSE i \in filas : TRUE].area_preparacion

\* the row INSERT INTO ordenes ... RETURNING * produces; callSid is not a
\* column: it records which call's request made the insert
FilaOrden(id, callSid, items, telefono, transcripcion) ==
    [ id |-> id, callSid |-> callSid, items |-> items, telefono |-> telefono,
      transcripcion |-> transcripcion, estado |-> "recibida" ]

\* telefono VARCHAR(50) NOT NULL: an undefined parameter is sent as NULL
InsertPosible(telefono) == telefono # Undefined

\* first-occurrence order of the values of a sequence (object key order)
RECURSIVE SinRepetir(_)
SinRepetir(s) ==
    IF s = <<>> THEN <<>>
    ELSE LET resto == SinRepetir(SubSeq(s, 1, Len(s) - 1))
             ultimo == s[Len(s)]
         IN  IF ultimo \in Range(resto) THEN resto ELSE Append(resto, ultimo)

\* variant that sends the whole order to the area of its first item
procesarNotificaciones_unaSola(orden) ==
    IF orden.items = <<>> THEN <<>>
    ELSE << [area |-> AreaMenu(orden.items[1]), ordenId |-> orden.id,
             items |-> orden.items] >>

\* part_005 procesarNotificaciones: the calls of enviarNotificacion it makes
procesarNotificaciones(orden) ==
    LET areaDe(n) == AreaMenu(n)
        areas == SinRepetir([i \in DOMAIN orden.items |-> areaDe(orden.items[i])])
        DeArea(a) == LET Es(n) == areaDe(n) = a IN SelectSeq(orden.items, Es)
    IN  [i \in DOMAIN areas |->
            [area |-> areas[i], ordenId |-> orden.id, items |-> DeArea(areas[i])]]

\* enviarNotificacion is async and nobody awaits it: each call made by
\* procesarNotificaciones settles on its own, resolved or rejected
enviarNotificacion(llamadas) ==
    { [i \in DOMAIN llamadas |-> Spread(llamadas[i], [rechazada |-> f[i]])] :
        f \in [DOMAIN llamadas -> BOOLEAN] }

\* one call of db.agregarOrden(items, telefono, transcripcion, nombreCliente)
\* and how its promise settled: "pendiente", "devuelta" (resolved with the
\* order ordenId) or "error" (rejected)
Invocacion(callSid, estadoFinal, items) ==
    [ callSid |-> callSid, items |-> items,
      telefono |-> estadoFinal.telefonoCliente,
      nombreCliente |-> estadoFinal.nombreCliente,
      total |-> estadoFinal.total,
      resultado |-> "pendiente", ordenId |-> 0 ]

Pendiente(c) ==
    CHOOSE i \in DOMAIN invocaciones :
        invocaciones[i].callSid = c /\ invocaciones[i].resultado = "pendiente"

Resuelve(c, resultado, ordenId) ==
    invocaciones' = [invocaciones EXCEPT ![Pendiente(c)] =
                        [@ EXCEPT !.resultado = resultado, !.ordenId = ordenId]]

-----------------------------------------------------------------------------
(* TwiML responses and the voice transport *)

Twiml(dice, gather, redirect, hangup, codigo, ordenId) ==
    [ dice |-> dice, gather |-> gather, redirect |-> redirect,
      hangup |-> hangup, codigo |-> codigo, ordenId |-> ordenId ]

\* the call goes on after a response iff it gathers speech or redirects
Continua(r) == ~r.hangup /\ (r.gather # "" \/ r.redirect # "")

SiguienteRuta(r) == IF r.redirect # "" THEN r.redirect ELSE r.gather

LlamadaTras(r) ==
    IF Continua(r) THEN [estado |-> "activa", ruta |-> SiguienteRuta(r)]
    ELSE [estado |-> "terminada", ruta |-> ""]

SinPeticion(c) == [k \in DOMAIN enCurso \ {c} |-> enCurso[k]]

\* variant that sends the response twice
Enviar_doble(c, previas, r) ==
    /\ respuesta' = [respuesta EXCEPT ![c] = Append(Append(previas, r), r)]
    /\ llamada' = [llamada EXCEPT ![c] = LlamadaTras(r)]
    /\ enCurso' = SinPeticion(c)

\* res.send(twiml): the request of call c is answered and leaves the server
Enviar(c, previas, r) ==
    /\ respuesta' = [respuesta EXCEPT ![c] = Append(previas, r)]
    /\ llamada' = [llamada EXCEPT ![c] = LlamadaTras(r)]
    /\ enCurso' = SinPeticion(c)

\* variant that keeps listening after the error utterance
ManejadorErrores_sigue(c, cs, previas) ==
    /\ conversationState' = deleteState(cs, c)
    /\ Enviar(c, previas, Twiml(<<"error_sistema">>, "/twilio-conversation", "",
                                FALSE, 500, 0))

\* part_005 global error handler (lines 324-339) for a twilio route; the one
\* of server.js (lines 671-693) is the same
ManejadorErrores(c, cs, previas) ==
    /\ conversationState' = deleteState(cs, c)
    /\ Enviar(c, previas, Twiml(<<"error_sistema">>, "", "", TRUE, 500, 0))

\* part_004 global error handler (lines 380-399): no registry, no hangup verb
ManejadorErroresSimple(c, previas) ==
    /\ UNCHANGED conversationState
    /\ Enviar(c, previas, Twiml(<<"error_sistema">>, "", "", FALSE, 500, 0))

RutaProcess == "/twilio-process"

ErrorGlobal(c, ruta, cs, previas) ==
    IF ruta = RutaProcess THEN ManejadorErroresSimple(c, previas)
    ELSE ManejadorErrores(c, cs, previas)

-----------------------------------------------------------------------------
(* Unified conversation loop: unnamed/part_005 POST /twilio-conversation *)

RutaConversacion == "/twilio-conversation"

\* variant of the route that gives the call up when the assistant apologises
TrasIA_cuelga(c, cs, respuestaIA) ==
    /\ conversationState' =
          IF respuestaIA.mensaje = "disculpa_ia" THEN deleteState(cs, c)
          ELSE updateState(cs, c, respuestaIA.estadoActualizado)
    /\ Enviar(c, <<>>,
              Twiml(<<respuestaIA.mensaje>>,
                    IF respuestaIA.mensaje = "disculpa_ia" THEN ""
                    ELSE RutaConversacion,
                    "", respuestaIA.mensaje = "disculpa_ia", 200, 0))
    /\ UNCHANGED <<invocaciones, ordenes, orden_items, notificaciones>>

\* lines 165-184 up to the await of db.agregarOrden, or 187-197
TrasIA(c, cs, respuestaIA) ==
    LET estadoFinal == respuestaIA.estadoActualizado
        cs2 == updateState(cs, c, estadoFinal)
    IN  IF estadoFinal.stage = "FINALIZED"
        THEN /\ Len(invocaciones) < MaxInvocaciones
             /\ invocaciones' = Append(invocaciones,
                    Invocacion(c, estadoFinal, estadoFinal.items))
             /\ enCurso' = (c :> [ pc |-> "db", ruta |-> RutaConversacion,
                                   mensaje |-> respuestaIA.mensaje,
                                   items |-> estadoFinal.items,
                                   telefono |-> estadoFinal.telefonoCliente,
                                   estadoFinal |-> estadoFinal ])
                           @@ SinPeticion(c)
             /\ conversationState' = cs2
             /\ respuesta' = [respuesta EXCEPT ![c] = <<>>]
             /\ UNCHANGED <<llamada, ordenes, orden_items, notificaciones>>
        ELSE /\ conversationState' = cs2
             /\ Enviar(c, <<>>, Twiml(<<respuestaIA.mensaje>>, RutaConversacion,
                                      "", FALSE, 200, 0))
             /\ UNCHANGED <<invocaciones, ordenes, orden_items, notificaciones>>

\* variant of a server that takes no request while another is suspended
PuedeLlegar_deUnaEnUna(c, ruta) ==
    /\ llamada[c].estado # "terminada"
    /\ llamada[c].estado = "activa" => llamada[c].ruta = ruta
    /\ enCurso = <<>>

PuedeLlegar(c, ruta) ==
    /\ llamada[c].estado # "terminada"
    /\ llamada[c].estado = "activa" => llamada[c].ruta = ruta
    /\ c \notin DOMAIN enCurso

\* a request without SpeechResult: greeting and gather (lines 157-161, 187-197)
TurnoSinVoz(c) ==
    /\ variante \in {"llm", "reglas"}
    /\ PuedeLlegar(c, RutaConversacion)
    /\ conversationState' = getOrCreateState(conversationState, Caller(c), c)
    /\ Enviar(c, <<>>, Twiml(<<"saludo">>, RutaConversacion, "", FALSE, 200, 0))
    /\ UNCHANGED <<variante, apiKey, ADMIN_API_KEY, respuestaAdmin, duplicada, invocaciones, ordenes, orden_items, notificaciones>>

\* what the caller says in a turn of the Gemini loop; the code passes it
\* to the prompt unread, and the reply is drawn from AiResponses
Dichos == {"quiero un capuchino"}

\* a request with SpeechResult, Gemini assistant: runs up to the await of
\* axios.post inside procesarConversacion (line 164 -> part_000 line 106)
TurnoLLM(c) ==
    /\ variante = "llm"
    /\ PuedeLlegar(c, RutaConversacion)
    /\ LET cs == getOrCreateState(conversationState, Caller(c), c)
       IN  /\ conversationState' = cs
           /\ \E SpeechResult \in Dichos :
                 enCurso' = (c :> [ pc |-> "ia", ruta |-> RutaConversacion,
                                    SpeechResult |-> SpeechResult,
                                    estadoActual |-> cs[c] ]) @@ enCurso
    /\ respuesta' = [respuesta EXCEPT ![c] = <<>>]
    /\ UNCHANGED <<variante, apiKey, ADMIN_API_KEY, respuestaAdmin, duplicada, llamada, invocaciones, ordenes, orden_items, notificaciones>>

\* the Gemini call settles: the request resumes at part_000 line 110
RetornaIA(c) ==
    /\ variante = "llm"
    /\ c \in DOMAIN enCurso
    /\ enCurso[c].pc = "ia"
    /\ \/ \E aiResponse \in AiResponses :
             TrasIA(c, conversationState,
                    procesarConversacion(enCurso[c].estadoActual, FALSE, aiResponse))
       \/ TrasIA(c, conversationState,
                 procesarConversacion(enCurso[c].estadoActual, TRUE,
                                      CHOOSE a \in AiResponses : TRUE))
    /\ UNCHANGED <<variante, apiKey, ADMIN_API_KEY, respuestaAdmin, duplicada>>

\* a request with SpeechResult, rule-based assistant: no await before the
\* database call, so the turn runs in one step
TurnoReglas(c) ==
    /\ variante = "reglas"
    /\ PuedeLlegar(c, RutaConversacion)
    /\ \E t \in Transcripciones :
          LET cs == getOrCreateState(conversationState, Caller(c), c)
          IN  TrasIA(c, cs, procesarConversacionReglas(t, cs[c]))
    /\ UNCHANGED <<variante, apiKey, ADMIN_API_KEY, respuestaAdmin, duplicada>>

\* variant that gathers again after announcing the order
RespuestaOrdenRegistrada_sigue(p, id) ==
    Twiml(<<p.mensaje, "orden_registrada">>, p.ruta, "", FALSE, 200, id)

\* part_005 lines 178-183 (twiml.hangup) / server.js lines 445-451 and
\* part_004 line 169 (no hangup, no gather): the closing response
RespuestaOrdenRegistrada(p, id) ==
    Twiml(<<p.mensaje, "orden_registrada">>, "", "", p.ruta = RutaConversacion,
          200, id)

\* variant in which the route awaits the dispatches and a rejected one
\* reaches the error utterance
TrasNotificar_espera(c, p, id, despacho) ==
    IF \E i \in DOMAIN despacho : despacho[i].rechazada
    THEN Enviar(c, respuesta[c],
                Twiml(<<"error_sistema">>, "", "", p.ruta = RutaConversacion, 500, 0))
    ELSE Enviar(c, respuesta[c], RespuestaOrdenRegistrada(p, id))

\* part_005 lines 176-184 / part_004 lines 167-179: procesarNotificaciones
\* has returned without waiting for its dispatches; the route says the
\* closing utterance and sends the response
TrasNotificar(c, p, id, despacho) ==
    Enviar(c, respuesta[c], RespuestaOrdenRegistrada(p, id))

\* db.agregarOrden settles (part_003 lines 119-143), then the rest of the
\* route that awaited it, or its catch and the global error handler
RetornaAgregarOrden(c) ==
    /\ c \in DOMAIN enCurso
    /\ enCurso[c].pc = "db"
    /\ LET p == enCurso[c]
           fila == FilaOrden(Len(ordenes) + 1, c, p.items, p.telefono,
                             [ nombreCliente |-> p.estadoFinal.nombreCliente,
                               total |-> p.estadoFinal.total ])
       IN  \/ \* the INSERT fails: nothing stored, the error reaches next(error)
              /\ UNCHANGED <<ordenes, orden_items, notificaciones>>
              /\ Resuelve(c, "error", 0)
              /\ ErrorGlobal(c, p.ruta, conversationState, respuesta[c])
           \/ \* the INSERT commits, then obtenerMenu fails
              /\ InsertPosible(p.telefono)
              /\ ordenes' = Append(ordenes, fila)
              /\ UNCHANGED notificaciones
              /\ Resuelve(c, "error", 0)
              /\ ErrorGlobal(c, p.ruta, conversationState, respuesta[c])
           \/ \* the order is returned
              /\ InsertPosible(p.telefono)
              /\ ordenes' = Append(ordenes, fila)
              /\ Resuelve(c, "devuelta", fila.id)
              /\ conversationState' =
                    IF p.ruta = RutaProcess THEN conversationState
                    ELSE deleteState(conversationState, c)
              /\ \E despacho \in enviarNotificacion(procesarNotificaciones(fila)) :
                    /\ notificaciones' = notificaciones \o despacho
                    /\ TrasNotificar(c, p, fila.id, despacho)
    /\ UNCHANGED <<variante, apiKey, ADMIN_API_KEY, respuestaAdmin, duplicada, orden_items>>

-----------------------------------------------------------------------------
(* Multi-phase server: server.js.  asistenteIA.identificarItems is called  *)
(* by every phase but is defined by no revision of AsistenteIA.js in the  *)
(* repository: its results are drawn from what the callers read.          *)

RutaVoice == "/twilio-voice"
RutaOrderBase == "/twilio-process-order-base"
RutaCustomizations == "/twilio-process-customizations"
RutaUpsell == "/twilio-process-upsell"
RutaPayment == "/twilio-process-payment"

\* server.js line 274: fixed cost of one customization, in cents
CostoPersonalizacion == 75

\* AsistenteIA.js first class, itemPriceMap (lines 18-24)
itemPriceMap(nombre) ==
    CASE nombre = "Café Americano" -> 250
      [] nombre = "Capuchino" -> 350
      [] nombre = "Latte de Vainilla" -> 375
      [] nombre = "Muffin de Arándanos" -> 200
      [] nombre = "Sándwich de Pavo" -> 650
      [] OTHER -> 0

\* AsistenteIA.js first class, keywordMap areas (lines 29-38)
AreaItem(nombre) ==
    IF nombre \in {"Café Americano", "Capuchino", "Latte de Vainilla"}
    THEN "barra" ELSE "cocina"

LecheDeAvena == "Leche de Avena"

\* results of identificarItems as the phases read them; a failed extraction
\* is reported as a value (nothing found), not thrown
identificarItems ==
    [ items : {<<>>, <<Capuchino>>, <<Muffin>>},
      personalizaciones : {<<>>, <<LecheDeAvena>>},
      aceptaUpsell : BOOLEAN,
      pagoAhora : BOOLEAN ]

totalInicial(r) ==
    SumSeq([i \in DOMAIN r.items |-> itemPriceMap(r.items[i])])
    + Len(r.personalizaciones) * CostoPersonalizacion

Suspender(c, cont) ==
    /\ enCurso' = (c :> cont) @@ SinPeticion(c)
    /\ respuesta' = [respuesta EXCEPT ![c] = <<>>]
    /\ UNCHANGED <<llamada>>

\* a call not seen before reaches a phase route when the process restarted
\* in mid-call and the registry was lost
PuedeLlegarFase(c, ruta) ==
    /\ variante = "fases"
    /\ llamada[c].estado # "terminada"
    /\ llamada[c].estado = "activa" => llamada[c].ruta = ruta
    /\ c \notin DOMAIN enCurso

\* POST /twilio-voice (lines 163-184)
TwilioVoice(c) ==
    /\ PuedeLlegarFase(c, RutaVoice)
    /\ conversationState' = createInitialState(conversationState, Caller(c), c)
    /\ Enviar(c, <<>>, Twiml(<<"saludo">>, RutaOrderBase, "", FALSE, 200, 0))
    /\ UNCHANGED <<variante, apiKey, ADMIN_API_KEY, respuestaAdmin, duplicada, invocaciones, ordenes, orden_items, notificaciones>>

\* POST /twilio-process-order-base up to the await (lines 187-201)
ProcessOrderBaseVoz(c, SpeechResult) ==
    /\ PuedeLlegarFase(c, RutaOrderBase)
    /\ IF ~Existe(conversationState, c) \/ ~SpeechResult
       THEN \* lines 193-198: the state is left in the registry
            Enviar(c, <<>>, Twiml(<<"no_pude_escuchar">>, "", "", FALSE, 200, 0))
       ELSE Suspender(c, [ pc |-> "ia", ruta |-> RutaOrderBase,
                           state |-> conversationState[c] ])
    /\ UNCHANGED <<variante, apiKey, ADMIN_API_KEY, respuestaAdmin, duplicada, conversationState, invocaciones, ordenes, orden_items,
                   notificaciones>>

ProcessOrderBase(c) ==
    \E SpeechResult \in BOOLEAN : ProcessOrderBaseVoz(c, SpeechResult)

SinEstado(c) ==
    Enviar(c, <<>>, Twiml(<<"error_conexion">>, "", "", FALSE, 200, 0))

\* POST /twilio-process-customizations up to the await (lines 253-268, 286-303)
ProcessCustomizationsVoz(c, SpeechResult) ==
    /\ PuedeLlegarFase(c, RutaCustomizations)
    /\ IF ~Existe(conversationState, c) THEN SinEstado(c)
       ELSE IF SpeechResult
       THEN Suspender(c, [ pc |-> "ia", ruta |-> RutaCustomizations,
                           state |-> conversationState[c] ])
       ELSE Enviar(c, <<>>, Twiml(<<"continuamos", "pregunta_upsell">>,
                                  RutaUpsell, "", FALSE, 200, 0))
    /\ UNCHANGED <<variante, apiKey, ADMIN_API_KEY, respuestaAdmin, duplicada, conversationState, invocaciones, ordenes, orden_items,
                   notificaciones>>

ProcessCustomizations(c) ==
    \E SpeechResult \in BOOLEAN : ProcessCustomizationsVoz(c, SpeechResult)

\* lines 364-385 of /twilio-process-upsell: re-read the state, summary, total
ResumenUpsell(c, cs, mensaje) ==
    IF Existe(cs, c)
    THEN /\ conversationState' = cs
         /\ Enviar(c, <<>>, Twiml(<<mensaje, "resumen_total", "pregunta_pago">>,
                                  RutaPayment, "", FALSE, 200, 0))
    ELSE ManejadorErrores(c, cs, <<>>)

\* POST /twilio-process-upsell up to the await (lines 310-324, 360-362)
ProcessUpsell(c) ==
    /\ PuedeLlegarFase(c, RutaUpsell)
    /\ \E SpeechResult \in BOOLEAN :
          IF ~Existe(conversationState, c)
          THEN SinEstado(c) /\ UNCHANGED conversationState
          ELSE IF SpeechResult
          THEN /\ Suspender(c, [ pc |-> "ia", ruta |-> RutaUpsell,
                                 state |-> conversationState[c] ])
               /\ UNCHANGED conversationState
          ELSE ResumenUpsell(c, conversationState, "continuamos_orden_inicial")
    /\ UNCHANGED <<variante, apiKey, ADMIN_API_KEY, respuestaAdmin, duplicada, invocaciones, ordenes, orden_items, notificaciones>>

\* POST /twilio-process-payment up to the await (lines 392-405)
ProcessPayment(c) ==
    /\ PuedeLlegarFase(c, RutaPayment)
    /\ IF ~Existe(conversationState, c) THEN SinEstado(c)
       ELSE Suspender(c, [ pc |-> "ia", ruta |-> RutaPayment,
                           state |-> conversationState[c] ])
    /\ UNCHANGED <<variante, apiKey, ADMIN_API_KEY, respuestaAdmin, duplicada, conversationState, invocaciones, ordenes, orden_items,
                   notificaciones>>

\* lines 419-431: bar items carry the customizations in their name
finalItems(state) ==
    [ i \in DOMAIN state.items |->
        IF AreaItem(state.items[i]) = "barra" /\ state.personalizaciones # <<>>
        THEN state.items[i] \o " (extras)"
        ELSE state.items[i] ]

\* identificarItems settled: the rest of the phase that awaited it
TrasIdentificar(c, r) ==
    LET p == enCurso[c]
        state == p.state
        cs == conversationState
    IN  CASE p.ruta = RutaOrderBase ->
             \* lines 203-246
             /\ UNCHANGED <<invocaciones, ordenes, orden_items, notificaciones>>
             /\ IF r.items = <<>>
                THEN /\ UNCHANGED conversationState
                     /\ Enviar(c, <<>>, Twiml(<<"sin_productos">>, "", RutaVoice,
                                              FALSE, 200, 0))
                ELSE IF ~Existe(cs, c)
                THEN ManejadorErrores(c, cs, <<>>)
                ELSE LET cs2 == updateState(cs, c,
                                   [ items |-> r.items,
                                     personalizaciones |-> r.personalizaciones,
                                     total |-> totalInicial(r),
                                     stage |-> "CUSTOMIZATION" ])
                         tieneItemDeBarra ==
                             \E i \in DOMAIN cs2[c].items :
                                 AreaItem(cs2[c].items[i]) = "barra"
                     IN  /\ conversationState' = cs2
                         /\ Enviar(c, <<>>,
                               IF tieneItemDeBarra
                               THEN Twiml(<<"anotado_bebida">>, RutaCustomizations,
                                          "", FALSE, 200, 0)
                               ELSE Twiml(<<"anotado_comida">>, RutaUpsell,
                                          "", FALSE, 200, 0))
          [] p.ruta = RutaCustomizations ->
             \* lines 268-303
             /\ UNCHANGED <<invocaciones, ordenes, orden_items, notificaciones>>
             /\ IF r.personalizaciones # <<>>
                THEN /\ conversationState' = updateState(cs, c,
                          [ personalizaciones |->
                                state.personalizaciones \o r.personalizaciones,
                            total |-> state.total
                                + Len(r.personalizaciones) * CostoPersonalizacion,
                            stage |-> "UPSELL" ])
                     /\ Enviar(c, <<>>, Twiml(<<"extras_anotados", "pregunta_upsell">>,
                                              RutaUpsell, "", FALSE, 200, 0))
                ELSE /\ UNCHANGED conversationState
                     /\ Enviar(c, <<>>, Twiml(<<"entendido", "pregunta_upsell">>,
                                              RutaUpsell, "", FALSE, 200, 0))
          [] p.ruta = RutaUpsell ->
             \* lines 324-385
             /\ UNCHANGED <<invocaciones, ordenes, orden_items, notificaciones>>
             /\ LET YaEsta(n) == n \notin Range(state.items)
                    nuevosItems == SelectSeq(r.items, YaEsta)
                    newTotal == state.total
                        + SumSeq([i \in DOMAIN nuevosItems |->
                                     itemPriceMap(nuevosItems[i])])
                IN  IF r.items # <<>> /\ nuevosItems # <<>>
                    THEN ResumenUpsell(c, updateState(cs, c,
                             [ items |-> state.items \o nuevosItems,
                               total |-> newTotal,
                               stage |-> "PAYMENT" ]), "anadido")
                    ELSE ResumenUpsell(c, cs,
                             IF r.items # <<>> THEN "nada_nuevo"
                             ELSE IF r.aceptaUpsell THEN "agrega_lo_que_quieras"
                             ELSE "no_hay_problema")
          [] p.ruta = RutaPayment ->
             \* lines 408-439, up to the await of db.agregarOrden
             /\ Len(invocaciones) < MaxInvocaciones
             /\ invocaciones' = Append(invocaciones,
                    Invocacion(c, state, finalItems(state)))
             /\ enCurso' = (c :> [ pc |-> "db", ruta |-> RutaPayment,
                                   mensaje |-> IF r.pagoAhora THEN "pago_ahora"
                                               ELSE "pago_al_llegar",
                                   items |-> finalItems(state),
                                   telefono |-> state.telefonoCliente,
                                   estadoFinal |-> state ])
                           @@ SinPeticion(c)
             /\ UNCHANGED <<conversationState, respuesta, llamada, ordenes, orden_items,
                            notificaciones>>

RetornaIdentificar(c) ==
    /\ variante = "fases"
    /\ c \in DOMAIN enCurso
    /\ enCurso[c].pc = "ia"
    /\ \E r \in identificarItems : TrasIdentificar(c, r)
    /\ UNCHANGED <<variante, apiKey, ADMIN_API_KEY, respuestaAdmin, duplicada>>

-----------------------------------------------------------------------------
(* Single-request server: unnamed/part_004 POST /twilio-process, with the  *)
(* keyword assistant of unnamed/part_002                                   *)

Latte == "Latte de Vainilla"

\* part_002 keywordMap (lines 20-30); "" stands for no entry
keywordMap(word) ==
    CASE word \in {"americano", "café"} -> "Café Americano"
      [] word \in {"latte", "vainilla"} -> Latte
      [] word \in {"muffin", "arándanos"} -> Muffin
      [] word \in {"sándwich", "pavo", "sandwich"} -> "Sándwich de Pavo"
      [] OTHER -> ""

\* transcripts as the words the tokenizer finds in them
TranscripcionesSimples ==
    { <<"hola">>, <<"muffin">>, <<"latte", "vainilla">>, <<"latte", "muffin">> }

\* part_002 procesarOrden (lines 15-67)
procesarOrden(words) ==
    LET Conocida(w) == keywordMap(w) # ""
        conocidas == SelectSeq(words, Conocida)
        itemsEncontrados ==
            SinRepetir([i \in DOMAIN conocidas |-> keywordMap(conocidas[i])])
    IN  [ items |-> itemsEncontrados,
          mensajeRespuesta |-> IF itemsEncontrados # <<>> THEN "he_identificado"
                               ELSE "no_pude_identificar" ]

\* POST /twilio-process up to the await of db.obtenerMenu (lines 149-157, 175-180)
TwilioProcess(c) ==
    /\ variante \in {"simple", "gemini", "transaccional"}
    /\ llamada[c].estado = "nueva"
    /\ c \notin DOMAIN enCurso
    /\ \/ Enviar(c, <<>>, Twiml(<<"no_recibi_orden">>, "", "", FALSE, 200, 0))
       \/ \E words \in TranscripcionesSimples :
             Suspender(c, [pc |-> "menu", ruta |-> RutaProcess, words |-> words])
    /\ UNCHANGED <<variante, apiKey, ADMIN_API_KEY, respuestaAdmin, duplicada, conversationState, invocaciones, ordenes, orden_items,
                   notificaciones>>

\* db.obtenerMenu settles: lines 157-174 up to the await of db.agregarOrden
RetornaObtenerMenu(c) ==
    /\ variante = "simple"
    /\ c \in DOMAIN enCurso
    /\ enCurso[c].pc = "menu"
    /\ \/ \* the query fails
          /\ ManejadorErroresSimple(c, <<>>)
          /\ UNCHANGED <<invocaciones, ordenes, orden_items, notificaciones>>
       \/ LET iaResultado == procesarOrden(enCurso[c].words)
              llamante == [ telefonoCliente |-> Caller(c),
                            nombreCliente |-> Undefined, total |-> 0 ]
          IN  IF iaResultado.items # <<>>
              THEN /\ Len(invocaciones) < MaxInvocaciones
                   /\ invocaciones' = Append(invocaciones,
                          Invocacion(c, llamante, iaResultado.items))
                   /\ enCurso' = (c :> [ pc |-> "db", ruta |-> RutaProcess,
                                         mensaje |-> iaResultado.mensajeRespuesta,
                                         items |-> iaResultado.items,
                                         telefono |-> Caller(c),
                                         estadoFinal |-> llamante ])
                                 @@ SinPeticion(c)
                   /\ UNCHANGED <<conversationState, respuesta, llamada, ordenes, orden_items,
                                  notificaciones>>
              ELSE /\ Enviar(c, <<>>, Twiml(<<iaResultado.mensajeRespuesta>>, "", "",
                                            FALSE, 200, 0))
                   /\ UNCHANGED <<conversationState, invocaciones, ordenes, orden_items,
                                  notificaciones>>
    /\ UNCHANGED <<variante, apiKey, ADMIN_API_KEY, respuestaAdmin, duplicada>>

-----------------------------------------------------------------------------
(* Gemini client with retries: unnamed/part_001, called by part_004 *)

\* part_001 line 20: makeApiCallWithRetry(payload, maxRetries = 5)
maxRetries == 5

\* what JSON.parse and the filter of lines 101-107 leave of the reply
ItemsGemini == { <<>>, <<[nombre |-> Latte, cantidad |-> 1]>> }

\* part_001 lines 51-53: without the key procesarOrden throws before its
\* try, so the promise part_004 awaits at line 160 is rejected
procesarOrdenLanza(c) ==
    /\ ~apiKey
    /\ Suspender(c, [pc |-> "rechazada", ruta |-> RutaProcess,
                     error |-> "GEMINI_API_KEY no está configurada"])
    /\ UNCHANGED <<conversationState, invocaciones, ordenes, orden_items, notificaciones>>

\* the await of the rejected promise resumes in the catch of part_004
\* (lines 181-182): next(error), the global error handler answers
RetornaRechazo(c) ==
    /\ variante = "gemini"
    /\ c \in DOMAIN enCurso
    /\ enCurso[c].pc = "rechazada"
    /\ ManejadorErroresSimple(c, <<>>)
    /\ UNCHANGED <<variante, apiKey, ADMIN_API_KEY, respuestaAdmin, duplicada, invocaciones, ordenes, orden_items, notificaciones>>

\* procesarOrden has returned an array (the items, or [] after a failure):
\* part_004 line 162 reads iaResultado.items.length, a TypeError on an
\* array, caught at line 181 and handed to the global error handler
TrasProcesarOrden(c, iaResultado) ==
    /\ iaResultado \in Seq([nombre : {Latte}, cantidad : {1}])
    /\ ManejadorErroresSimple(c, <<>>)
    /\ UNCHANGED <<invocaciones, ordenes, orden_items, notificaciones>>

\* db.obtenerMenu settles in part_004 (line 156); procesarOrden of part_001
\* runs to the first axios.post of makeApiCallWithRetry (line 24, i = 0)
RetornaObtenerMenuGemini(c) ==
    /\ variante = "gemini"
    /\ c \in DOMAIN enCurso
    /\ enCurso[c].pc = "menu"
    /\ \/ \* the query fails
          /\ ManejadorErroresSimple(c, <<>>)
          /\ UNCHANGED <<invocaciones, ordenes, orden_items, notificaciones>>
       \/ procesarOrdenLanza(c)
       \/ /\ apiKey
          /\ Suspender(c, [pc |-> "axios", ruta |-> RutaProcess, i |-> 0])
          /\ UNCHANGED <<conversationState, invocaciones, ordenes, orden_items,
                         notificaciones>>
    /\ UNCHANGED <<variante, apiKey, ADMIN_API_KEY, respuestaAdmin, duplicada>>

\* the HTTP status axios.post rejects with (part_001 line 30): 429 and 503
\* pass with time, 400 does not
ErroresAxios == {"429", "503", "400"}

RetornaAxios_esperaSiempre(c) ==
    /\ variante = "gemini"
    /\ c \in DOMAIN enCurso
    /\ enCurso[c].pc = "axios"
    /\ LET i == enCurso[c].i
       IN  \/ \E parsedItems \in ItemsGemini : TrasProcesarOrden(c, parsedItems)
           \/ /\ i < maxRetries
              /\ \E error \in ErroresAxios :
                    Suspender(c, [pc |-> "espera", ruta |-> RutaProcess, i |-> i,
                                  lastError |-> error])
              /\ UNCHANGED <<conversationState, invocaciones, ordenes, orden_items,
                             notificaciones>>
    /\ UNCHANGED <<variante, apiKey, ADMIN_API_KEY, respuestaAdmin, duplicada>>

\* the axios.post of attempt i settles (part_001 lines 23-40, 97-117)
RetornaAxios(c) ==
    /\ variante = "gemini"
    /\ c \in DOMAIN enCurso
    /\ enCurso[c].pc = "axios"
    /\ LET i == enCurso[c].i
       IN  \/ \* response.data returned, parsed and filtered, or unparseable
              \E parsedItems \in ItemsGemini : TrasProcesarOrden(c, parsedItems)
           \/ \* the request failed and attempts remain: sleep 2^i s and more
              /\ i < maxRetries - 1
              /\ \E error \in ErroresAxios :
                    Suspender(c, [pc |-> "espera", ruta |-> RutaProcess, i |-> i,
                                  lastError |-> error])
              /\ UNCHANGED <<conversationState, invocaciones, ordenes, orden_items,
                             notificaciones>>
           \/ \* the last attempt failed: line 41 throws, line 113 catches
              \* and procesarOrden returns []
              /\ ~(i < maxRetries - 1)
              /\ TrasProcesarOrden(c, <<>>)
    /\ UNCHANGED <<variante, apiKey, ADMIN_API_KEY, respuestaAdmin, duplicada>>

\* the backoff timer fires (line 36): i++ and the next axios.post
RetornaEspera(c) ==
    /\ variante = "gemini"
    /\ c \in DOMAIN enCurso
    /\ enCurso[c].pc = "espera"
    /\ Suspender(c, [pc |-> "axios", ruta |-> RutaProcess, i |-> enCurso[c].i + 1])
    /\ UNCHANGED <<variante, apiKey, ADMIN_API_KEY, respuestaAdmin, duplicada, conversationState, invocaciones, ordenes, orden_items,
                   notificaciones>>

-----------------------------------------------------------------------------
(* Transactional order write: Database.js (second class) agregarOrden,     *)
(* called by part_004 line 164                                             *)

\* Database.js lines 226-233: the rows inicializarTablas puts in `productos`
productosBD ==
    << [nombre |-> Capuchino, area_preparacion |-> "barra"],
       [nombre |-> "Latte", area_preparacion |-> "barra"],
       [nombre |-> "Café Americano", area_preparacion |-> "barra"],
       [nombre |-> "Sándwich de pavo", area_preparacion |-> "cocina"],
       [nombre |-> "Ensalada César", area_preparacion |-> "cocina"],
       [nombre |-> "Brownie", area_preparacion |-> "barra"] >>

\* SELECT id, area_preparacion FROM productos WHERE nombre = $1
FilasProducto(nombre) ==
    {i \in DOMAIN productosBD : productosBD[i].nombre = nombre}

\* item lists handed to agregarOrden: {nombre, cantidad} objects as part_001
\* returns them, a name `productos` does not hold, and an object without
\* cantidad as part_002 builds them
ItemsPedido ==
    { <<>>,
      << [nombre |-> Capuchino, cantidad |-> 1] >>,
      << [nombre |-> Capuchino, cantidad |-> 1],
         [nombre |-> "Sándwich de pavo", cantidad |-> 2] >>,
      << [nombre |-> Capuchino, cantidad |-> 1],
         [nombre |-> Pizza, cantidad |-> 1] >>,
      << [nombre |-> "Café Americano"] >> }

\* the row INSERT INTO ordenes (telefono, transcripcion) produces
FilaOrdenTx(id, callSid, telefono, transcripcion) ==
    [ id |-> id, callSid |-> callSid, telefono |-> telefono,
      transcripcion |-> transcripcion, estado |-> "recibida" ]

\* nextval of the SERIAL of `ordenes`: above every id handed out and still
\* held by a row, committed or pending in an open transaction
SiguienteId ==
    LET enTablas == {ordenes[i].id : i \in DOMAIN ordenes}
        abiertas == {k \in DOMAIN enCurso : enCurso[k].pc = "tx"}
        enVuelo == UNION { {enCurso[k].pendOrden[j].id :
                               j \in DOMAIN enCurso[k].pendOrden} : k \in abiertas }
        usados == enTablas \cup enVuelo \cup {0}
    IN  1 + CHOOSE m \in usados : \A n \in usados : n <= m

\* variant without BEGIN: each INSERT commits on its own, so the ROLLBACK
\* of the catch undoes nothing
TrasRollback_sinTransaccion(tablaOrdenes, tablaItems, p) ==
    [ ordenes |-> tablaOrdenes \o p.pendOrden,
      orden_items |-> tablaItems \o p.pendItems ]

\* Database.js lines 331-334: ROLLBACK discards what the transaction wrote
TrasRollback(tablaOrdenes, tablaItems, p) ==
    [ ordenes |-> tablaOrdenes, orden_items |-> tablaItems ]

\* part_004 procesarNotificaciones (lines 56-69) on the order Database.js
\* returns: one enviarNotificacion per area_preparacion among its items
notificarPorArea(ordenId, nombres) ==
    LET areaDe(n) == productosBD[CHOOSE i \in FilasProducto(n) : TRUE].area_preparacion
        areas == SinRepetir([i \in DOMAIN nombres |-> areaDe(nombres[i])])
        DeArea(a) == LET Es(n) == areaDe(n) = a IN SelectSeq(nombres, Es)
    IN  [i \in DOMAIN areas |->
            [area |-> areas[i], ordenId |-> ordenId, items |-> DeArea(areas[i])]]

\* db.obtenerMenu settles in part_004 (line 156); the extractor returns its
\* items and agregarOrden runs to its first await (Database.js line 286)
RetornaObtenerMenuTx(c) ==
    /\ variante = "transaccional"
    /\ c \in DOMAIN enCurso
    /\ enCurso[c].pc = "menu"
    /\ \/ \* the query fails
          /\ ManejadorErroresSimple(c, <<>>)
          /\ UNCHANGED <<invocaciones, ordenes, orden_items, notificaciones>>
       \/ \E items \in ItemsPedido :
             LET llamante == [ telefonoCliente |-> Caller(c),
                               nombreCliente |-> Undefined, total |-> 0 ]
             IN  IF items # <<>>
                 THEN /\ Len(invocaciones) < MaxInvocaciones
                      /\ invocaciones' = Append(invocaciones,
                             Invocacion(c, llamante, items))
                      /\ enCurso' = (c :> [ pc |-> "tx", paso |-> "orden",
                                            ruta |-> RutaProcess,
                                            mensaje |-> "he_identificado",
                                            items |-> items,
                                            telefono |-> Caller(c),
                                            k |-> 0,
                                            pendOrden |-> <<>>,
                                            pendItems |-> <<>> ])
                                    @@ SinPeticion(c)
                      /\ UNCHANGED <<conversationState, respuesta, llamada,
                                     ordenes, orden_items, notificaciones>>
                 ELSE /\ Enviar(c, <<>>, Twiml(<<"no_pude_identificar">>, "", "",
                                               FALSE, 200, 0))
                      /\ UNCHANGED <<conversationState, invocaciones, ordenes,
                                     orden_items, notificaciones>>
    /\ UNCHANGED <<variante, apiKey, ADMIN_API_KEY, respuestaAdmin, duplicada>>

\* variant that tells the areas of the items written so far before the
\* ROLLBACK
TxFalla_notifica(c) ==
    LET p == enCurso[c]
        tablas == TrasRollback(ordenes, orden_items, p)
        nombres == [i \in DOMAIN p.pendItems |-> p.pendItems[i].producto]
    IN  /\ ordenes' = tablas.ordenes
        /\ orden_items' = tablas.orden_items
        /\ Resuelve(c, "error", 0)
        /\ ManejadorErroresSimple(c, respuesta[c])
        /\ notificaciones' =
              IF p.pendOrden = <<>> THEN notificaciones
              ELSE notificaciones \o
                   (CHOOSE d \in enviarNotificacion(
                                    notificarPorArea(p.pendOrden[1].id, nombres)) :
                       \A i \in DOMAIN d : ~d[i].rechazada)

\* a query of the transaction fails: catch, ROLLBACK, throw (lines 331-334);
\* part_004 hands the error to the global error handler
TxFalla(c) ==
    LET tablas == TrasRollback(ordenes, orden_items, enCurso[c])
    IN  /\ ordenes' = tablas.ordenes
        /\ orden_items' = tablas.orden_items
        /\ Resuelve(c, "error", 0)
        /\ ManejadorErroresSimple(c, respuesta[c])
        /\ UNCHANGED notificaciones

\* pool.connect, BEGIN and INSERT INTO ordenes (lines 286-298)
TxInsertaOrden(c) ==
    /\ variante = "transaccional"
    /\ c \in DOMAIN enCurso
    /\ enCurso[c].pc = "tx"
    /\ enCurso[c].paso = "orden"
    /\ \/ TxFalla(c)
       \/ /\ InsertPosible(enCurso[c].telefono)
          /\ enCurso' = [enCurso EXCEPT ![c] =
                [@ EXCEPT !.paso = "items",
                          !.pendOrden = << FilaOrdenTx(SiguienteId, c,
                                              enCurso[c].telefono,
                                              "transcripcion") >>]]
          /\ UNCHANGED <<conversationState, llamada, respuesta, invocaciones,
                         ordenes, orden_items, notificaciones>>
    /\ UNCHANGED <<variante, apiKey, ADMIN_API_KEY, respuestaAdmin, duplicada>>

\* one round of the loop over items (lines 301-324): SELECT the product
\* and, when it exists, INSERT INTO orden_items; cantidad is NOT NULL
TxItem(c) ==
    /\ variante = "transaccional"
    /\ c \in DOMAIN enCurso
    /\ enCurso[c].pc = "tx"
    /\ enCurso[c].paso = "items"
    /\ enCurso[c].k < Len(enCurso[c].items)
    /\ LET p == enCurso[c]
           item == p.items[p.k + 1]
           sigue(filas) ==
               /\ enCurso' = [enCurso EXCEPT ![c] =
                     [@ EXCEPT !.k = p.k + 1,
                               !.pendItems = p.pendItems \o filas]]
               /\ UNCHANGED <<conversationState, llamada, respuesta,
                              invocaciones, ordenes, orden_items,
                              notificaciones>>
       IN  \/ TxFalla(c)
           \/ /\ FilasProducto(item.nombre) = {}
              /\ sigue(<<>>)
           \/ /\ FilasProducto(item.nombre) # {}
              /\ "cantidad" \in DOMAIN item
              /\ sigue(<< [ orden_id |-> p.pendOrden[1].id,
                            producto |-> item.nombre,
                            cantidad |-> item.cantidad ] >>)
    /\ UNCHANGED <<variante, apiKey, ADMIN_API_KEY, respuestaAdmin, duplicada>>

\* COMMIT (line 326) and, when it succeeds, the rest of part_004's route
\* (lines 166-170, 178-179)
TxCommit(c) ==
    /\ variante = "transaccional"
    /\ c \in DOMAIN enCurso
    /\ enCurso[c].pc = "tx"
    /\ enCurso[c].paso = "items"
    /\ enCurso[c].k = Len(enCurso[c].items)
    /\ LET p == enCurso[c]
           id == p.pendOrden[1].id
           nombres == [i \in DOMAIN p.pendItems |-> p.pendItems[i].producto]
       IN  \/ TxFalla(c)
           \/ /\ ordenes' = ordenes \o p.pendOrden
              /\ orden_items' = orden_items \o p.pendItems
              /\ Resuelve(c, "devuelta", id)
              /\ UNCHANGED conversationState
              /\ \E despacho \in enviarNotificacion(notificarPorArea(id, nombres)) :
                    /\ notificaciones' = notificaciones \o despacho
                    /\ TrasNotificar(c, p, id, despacho)
    /\ UNCHANGED <<variante, apiKey, ADMIN_API_KEY, respuestaAdmin, duplicada>>

-----------------------------------------------------------------------------

\* a value of ADMIN_API_KEY, and what the text of undefined is when the
\* admin page (server.js line 511) renders an unset key into its HTML
ClaveAdmin == "clave-admin"
TextoUndefined == "texto:undefined"

SinPeticionAdmin == [ruta |-> "", apiKey |-> Undefined, codigo |-> 0]

InitServidor ==
    /\ variante \in Variantes
    \* only part_001 branches on the key; elsewhere a missing key is one
    \* more way for the request to Gemini to fail
    /\ apiKey \in (IF variante = "gemini" THEN BOOLEAN ELSE {TRUE})
    /\ conversationState = <<>>
    /\ enCurso = <<>>
    /\ duplicada = <<>>
    /\ llamada = [c \in Calls |-> [estado |-> "nueva", ruta |-> ""]]
    /\ respuesta = [c \in Calls |-> <<>>]
    /\ invocaciones = <<>>
    /\ ordenes = <<>>
    /\ orden_items = <<>>
    /\ notificaciones = <<>>
    /\ respuestaAdmin = SinPeticionAdmin

\* no call route reads ADMIN_API_KEY: the calls are followed with the key set
Init ==
    /\ InitServidor
    /\ ADMIN_API_KEY = ClaveAdmin

\* one step of the server on behalf of call c: a request arrives and runs
\* to its first await or to its response, or an awaited promise settles
Peticion(c) ==
    \/ TurnoSinVoz(c)
    \/ TurnoLLM(c)
    \/ RetornaIA(c)
    \/ TurnoReglas(c)
    \/ RetornaAgregarOrden(c)
    \/ TwilioProcess(c)
    \/ RetornaObtenerMenu(c)
    \/ RetornaObtenerMenuGemini(c)
    \/ RetornaAxios(c)
    \/ RetornaEspera(c)
    \/ RetornaRechazo(c)
    \/ RetornaObtenerMenuTx(c)
    \/ TxInsertaOrden(c)
    \/ TxItem(c)
    \/ TxCommit(c)
    \/ TwilioVoice(c)
    \/ ProcessOrderBase(c)
    \/ ProcessCustomizations(c)
    \/ ProcessUpsell(c)
    \/ ProcessPayment(c)
    \/ RetornaIdentificar(c)

Next == \E c \in Calls : Peticion(c)

Spec == Init /\ [][Next]_vars

\* the server while a single call is being attended
UnaLlamada == "CA1"

NextUna == Peticion(UnaLlamada)

\* An awaited promise settles (the HTTP call to Gemini and the pg query each
\* resolve or reject, the backoff timer fires) and Node then runs the
\* continuation of the handler.
FairSpec ==
    /\ Init
    /\ [][NextUna]_vars
    /\ WF_vars(RetornaIA(UnaLlamada))
    /\ WF_vars(RetornaObtenerMenu(UnaLlamada))
    /\ WF_vars(RetornaObtenerMenuGemini(UnaLlamada))
    /\ WF_vars(RetornaAxios(UnaLlamada))
    /\ WF_vars(RetornaEspera(UnaLlamada))
    /\ WF_vars(RetornaRechazo(UnaLlamada))
    /\ WF_vars(RetornaObtenerMenuTx(UnaLlamada))
    /\ WF_vars(TxInsertaOrden(UnaLlamada))
    /\ WF_vars(TxItem(UnaLlamada))
    /\ WF_vars(TxCommit(UnaLlamada))
    /\ WF_vars(RetornaIdentificar(UnaLlamada))
    /\ WF_vars(RetornaAgregarOrden(UnaLlamada))

-----------------------------------------------------------------------------
(* A second request of a call whose turn is suspended: part_005 keeps no    *)
(* record of requests in progress and the route tests nothing before        *)
(* getOrCreateState (lines 151-157), so such a request runs like any other  *)

\* replies to the second request; one that finalizes the order is left out
RespuestasDuplicada == {a \in AiResponses : a.next_stage # "FINALIZED"}

\* the second POST carries speech and runs to the await of the Gemini call
\* (lines 157-164); getOrCreateState hands it the session the registry holds
LlegaDuplicada(c) ==
    /\ variante = "llm"
    /\ c \in DOMAIN enCurso
    /\ enCurso[c].pc = "ia"
    /\ c \notin DOMAIN duplicada
    /\ \E SpeechResult \in Dichos :
          duplicada' = (c :> [ pc |-> "ia", SpeechResult |-> SpeechResult,
                               estadoActual |-> conversationState[c] ])
                       @@ duplicada
    /\ UNCHANGED <<variante, apiKey, ADMIN_API_KEY, respuestaAdmin, conversationState, enCurso, llamada,
                   respuesta, invocaciones, ordenes, orden_items, notificaciones>>

\* the Gemini call of the second request settles: lines 164-167 and 187-197
RetornaIADuplicada(c) ==
    /\ variante = "llm"
    /\ c \in DOMAIN duplicada
    /\ duplicada[c].pc = "ia"
    /\ \E fallo \in BOOLEAN, aiResponse \in RespuestasDuplicada :
          LET respuestaIA ==
                  procesarConversacion(duplicada[c].estadoActual, fallo, aiResponse)
          IN  /\ conversationState' =
                    updateState(conversationState, c, respuestaIA.estadoActualizado)
              /\ duplicada' = [duplicada EXCEPT ![c] =
                    [ pc |-> "respondida",
                      \* the test of updateState (part_005 line 86)
                      habiaSesion |-> Existe(conversationState, c),
                      respuesta |-> Twiml(<<respuestaIA.mensaje>>, RutaConversacion,
                                          "", FALSE, 200, 0) ]]
    /\ UNCHANGED <<variante, apiKey, ADMIN_API_KEY, respuestaAdmin, enCurso, llamada, respuesta, invocaciones,
                   ordenes, orden_items, notificaciones>>

NextSolapado ==
    \/ NextUna
    \/ LlegaDuplicada(UnaLlamada)
    \/ RetornaIADuplicada(UnaLlamada)

\* the server attending one call whose requests may overlap
SpecSolapada == Init /\ [][NextSolapado]_vars

-----------------------------------------------------------------------------
(* Admin routes: server.js lines 42-48 and 471-490, unnamed/part_004      *)
(* lines 39-46 and 189-208.  unnamed/part_005 serves the admin page but   *)
(* registers neither route.                                               *)

ConPanel == variante \in {"fases", "simple", "gemini", "transaccional"}

\* what process.env.ADMIN_API_KEY can hold: a key, nothing, the empty text
ClavesConfiguradas == {ClaveAdmin, Undefined, ""}

\* req.headers['x-api-key']: absent, empty, the text the admin page sends
\* when the key is unset, the key, another key
CabecerasAdmin == {Undefined, "", TextoUndefined, ClaveAdmin, "otra-clave"}

\* req.body.estado is stored as received: the four statuses of the admin
\* page and a value that is none of them
EstadosPedidos ==
    {"recibida", "en_preparacion", "lista_para_servir", "completada", "cancelada"}

\* req.params.id: the id of the first order and one past it
IdsPedidos == {1, 2}

Truthy(v) == v # Undefined /\ v # ""

protegerRuta_sinPresencia(xApiKey) == xApiKey = ADMIN_API_KEY

protegerRuta(xApiKey) == Truthy(xApiKey) /\ xApiKey = ADMIN_API_KEY

\* UPDATE ordenes SET estado = $1 WHERE id = $2
actualizarEstadoOrden(tabla, id, estado) ==
    [j \in DOMAIN tabla |->
        IF tabla[j].id = id THEN [tabla[j] EXCEPT !.estado = estado] ELSE tabla[j]]

RespondeAdmin(ruta, xApiKey, codigo) ==
    respuestaAdmin' = [ruta |-> ruta, apiKey |-> xApiKey, codigo |-> codigo]

\* PUT /ordenes/:id/estado.  Database.js (second class) throws when no row
\* has the id; part_003 returns undefined and the route answers 200.
PutEstado(xApiKey, id, estado) ==
    /\ ConPanel
    /\ IF ~protegerRuta(xApiKey)
          THEN /\ RespondeAdmin("/ordenes/:id/estado", xApiKey, 401)
               /\ UNCHANGED <<ordenes, orden_items>>
          ELSE \/ /\ RespondeAdmin("/ordenes/:id/estado", xApiKey, 500)
                  /\ UNCHANGED <<ordenes, orden_items>>
               \/ /\ ordenes' = actualizarEstadoOrden(ordenes, id, estado)
                  /\ orden_items' = orden_items
                  /\ RespondeAdmin("/ordenes/:id/estado", xApiKey,
                        IF variante = "transaccional"
                           /\ \A j \in DOMAIN ordenes : ordenes[j].id # id
                        THEN 500 ELSE 200)
    /\ UNCHANGED <<variante, apiKey, ADMIN_API_KEY, duplicada, conversationState,
                   enCurso, llamada, respuesta, invocaciones, notificaciones>>

\* POST /reiniciar: TRUNCATE ordenes (and orden_items) RESTART IDENTITY
PostReiniciar(xApiKey) ==
    /\ ConPanel
    /\ IF ~protegerRuta(xApiKey)
          THEN /\ RespondeAdmin("/reiniciar", xApiKey, 401)
               /\ UNCHANGED <<ordenes, orden_items>>
          ELSE \/ /\ RespondeAdmin("/reiniciar", xApiKey, 500)
                  /\ UNCHANGED <<ordenes, orden_items>>
               \/ /\ ordenes' = <<>>
                  /\ orden_items' = <<>>
                  /\ RespondeAdmin("/reiniciar", xApiKey, 200)
    /\ UNCHANGED <<variante, apiKey, ADMIN_API_KEY, duplicada, conversationState,
                   enCurso, llamada, respuesta, invocaciones, notificaciones>>

PeticionAdmin ==
    \E xApiKey \in CabecerasAdmin :
        \/ \E id \in IdsPedidos, estado \in EstadosPedidos : PutEstado(xApiKey, id, estado)
        \/ PostReiniciar(xApiKey)

InitAdmin ==
    /\ InitServidor
    /\ ADMIN_API_KEY \in ClavesConfiguradas

\* one call and the admin panel
NextAdmin == NextUna \/ PeticionAdmin

SpecAdmin == InitAdmin /\ [][NextAdmin]_vars

-----------------------------------------------------------------------------
(* Properties *)

InvocacionesDe(c) == {i \in DOMAIN invocaciones : invocaciones[i].callSid = c}

OrdenesDe(c) == {i \in DOMAIN ordenes : ordenes[i].callSid = c}

SinRepetidos(s) == \A i, j \in DOMAIN s : i # j => s[i] # s[j]

\* the total the price tables of the running revision give for a state
TotalDeTablas(v, e) ==
    IF v = "fases"
    THEN SumSeq([i \in DOMAIN e.items |-> itemPriceMap(e.items[i])])
         + Len(e.personalizaciones) * CostoPersonalizacion
    ELSE SumSeq([i \in DOMAIN e.items |-> PrecioProducto(v, e.items[i])])
         + SumSeq([i \in DOMAIN e.personalizaciones |->
                      PrecioPersonalizacion(e.personalizaciones[i])])

\* C1: identification guard. No state stored in the registry has stage
\* FINALIZED while its customer name is still the anonymous sentinel (the
\* guard would have stored IDENTIFICATION instead).
C1_GuardaIdentificacion ==
    \A c \in DOMAIN conversationState :
        conversationState[c].nombreCliente = ClienteAnonimo
            => conversationState[c].stage # "FINALIZED"

\* C2: db.agregarOrden is only ever called for a session whose customer name
\* is no longer the anonymous sentinel.
C2_EscrituraConNombre ==
    \A i \in DOMAIN invocaciones :
        invocaciones[i].nombreCliente # ClienteAnonimo

\* C3: the total of every session equals the sum of the prices of its items
\* plus the prices of its customizations, unknown names counting 0.
C3_TotalDerivado ==
    \A c \in DOMAIN conversationState :
        conversationState[c].total = TotalDeTablas(variante, conversationState[c])

\* C4: the items of a session never hold the same name twice.
C4_NombresUnicos ==
    \A c \in DOMAIN conversationState :
        SinRepetidos(conversationState[c].items)

\* the step in which the turn of call c ends with the assistant's fallback
\* apology, i.e. the Gemini call of that turn failed
FalloIA(c) ==
    /\ c \in DOMAIN enCurso
    /\ enCurso[c].pc = "ia"
    /\ enCurso[c].ruta = RutaConversacion
    /\ c \notin DOMAIN enCurso'
    /\ respuesta'[c] # <<>>
    /\ respuesta'[c][1].dice = <<"disculpa_ia">>

\* C5: a turn whose oracle call fails leaves stage, items and total of the
\* session as they were when the turn started.
C5_FalloNoMuta ==
    [][\A c \in Calls :
          FalloIA(c) =>
            /\ c \in DOMAIN conversationState'
            /\ conversationState'[c].stage = enCurso[c].estadoActual.stage
            /\ conversationState'[c].items = enCurso[c].estadoActual.items
            /\ conversationState'[c].total = enCurso[c].estadoActual.total
            /\ conversationState[c].stage = enCurso[c].estadoActual.stage
            /\ conversationState[c].items = enCurso[c].estadoActual.items
            /\ conversationState[c].total = enCurso[c].estadoActual.total]_vars

\* a turn has just ended with the apology on a session that holds items
C5_Testigo ==
    \E c \in DOMAIN conversationState :
        /\ c \notin DOMAIN enCurso
        /\ respuesta[c] # <<>>
        /\ respuesta[c][1].dice = <<"disculpa_ia">>
        /\ conversationState[c].items # <<>>
        /\ conversationState[c].stage # "INITIAL_ORDER"

\* C6: for every call, db.agregarOrden is called at most once and at most
\* one order is stored, and a call that was told its order number has
\* exactly one stored order.
C6_EscrituraUnica ==
    \A c \in Calls :
        /\ Cardinality(InvocacionesDe(c)) <= 1
        /\ Cardinality(OrdenesDe(c)) <= 1
        /\ (\E i \in InvocacionesDe(c) : invocaciones[i].resultado = "devuelta")
              => Cardinality(OrdenesDe(c)) = 1

\* both calls finalized: each has its one order
C6_Testigo ==
    \A c \in Calls :
        \E i \in InvocacionesDe(c) : invocaciones[i].resultado = "devuelta"

\* C7: when db.agregarOrden returned the order of a call, the response of
\* that turn carries the order id, ends the call, and the registry holds no
\* session for the call.
C7_ProtocoloFinal ==
    \A i \in DOMAIN invocaciones :
        invocaciones[i].resultado = "devuelta" =>
            LET c == invocaciones[i].callSid
            IN  /\ c \notin DOMAIN enCurso
                /\ Len(respuesta[c]) = 1
                /\ respuesta[c][1].ordenId = invocaciones[i].ordenId
                /\ respuesta[c][1].ordenId \in {ordenes[k].id : k \in OrdenesDe(c)}
                /\ "orden_registrada" \in Range(respuesta[c][1].dice)
                /\ ~Continua(respuesta[c][1])
                /\ llamada[c].estado = "terminada"
                /\ ~Existe(conversationState, c)

\* a call of the unified loop and a call of the phased server can both get
\* there; this is one that was stored with a named customer
C7_Testigo ==
    \E i \in DOMAIN invocaciones :
        /\ invocaciones[i].resultado = "devuelta"
        /\ invocaciones[i].nombreCliente = JuanPerez
        /\ invocaciones[i].items # <<>>

\* C8: when db.agregarOrden failed for a call, the response of that turn is
\* the system-error utterance and ends the call, the session is deleted,
\* the write is not called again and no notification goes out for the call.
C8_FalloPersistenciaFatal ==
    \A i \in DOMAIN invocaciones :
        invocaciones[i].resultado = "error" =>
            LET c == invocaciones[i].callSid
            IN  /\ c \notin DOMAIN enCurso
                /\ Len(respuesta[c]) = 1
                /\ respuesta[c][1].dice = <<"error_sistema">>
                /\ ~Continua(respuesta[c][1])
                /\ llamada[c].estado = "terminada"
                /\ ~Existe(conversationState, c)
                /\ InvocacionesDe(c) = {i}
                /\ \A n \in DOMAIN notificaciones :
                      notificaciones[n].ordenId \notin
                          {ordenes[k].id : k \in OrdenesDe(c)}

\* a write failed after its INSERT had committed, while another order of
\* the same run was notified
C8_Testigo ==
    /\ notificaciones # <<>>
    /\ \E i \in DOMAIN invocaciones :
          /\ invocaciones[i].resultado = "error"
          /\ OrdenesDe(invocaciones[i].callSid) # {}

\* a call is active from its first request until a response ends it
Activa(c) ==
    \/ llamada[c].estado = "activa"
    \/ llamada[c].estado = "nueva" /\ c \in DOMAIN enCurso

\* C9: in the servers that keep a registry, it holds a session for a call
\* iff the call is active (neither finalized nor aborted nor ended).
C9_RegistroSiiActiva ==
    variante # "simple" =>
        \A c \in Calls : Existe(conversationState, c) <=> Activa(c)

ResponseValida(r) ==
    /\ r.dice # <<>>
    /\ ~(r.hangup /\ (r.gather # "" \/ r.redirect # ""))
    /\ ~(r.gather # "" /\ r.redirect # "")

\* C10: every turn gets exactly one response, a re-prompt that keeps
\* listening or a termination: never two, and a request that is waiting on
\* the extractor or the database is eventually answered.
C10_CadaTurnoResponde ==
    /\ [](\A c \in Calls :
            /\ Len(respuesta[c]) <= 1
            /\ \A k \in DOMAIN respuesta[c] : ResponseValida(respuesta[c][k])
            /\ (c \notin DOMAIN enCurso /\ llamada[c].estado # "nueva")
                  => Len(respuesta[c]) = 1)
    /\ \A c \in Calls :
          (c \in DOMAIN enCurso) ~>
              (c \notin DOMAIN enCurso /\ Len(respuesta[c]) = 1)

\* the turn that failed in the database was answered by the error handler
C10_Testigo ==
    \E c \in Calls :
        /\ c \notin DOMAIN enCurso
        /\ Len(respuesta[c]) = 1
        /\ respuesta[c][1].codigo = 500

-----------------------------------------------------------------------------
(* C11 .. C20 *)

\* what the caller hears in the turn that call c has just run: the message
\* of the response, or the message the route holds while it waits
DichoEnTurno(c) ==
    IF c \in DOMAIN enCurso'
    THEN {enCurso'[c].mensaje}
    ELSE UNION {Range(respuesta'[c][k].dice) : k \in DOMAIN respuesta'[c]}

\* C11: a turn of the rule-based loop that leaves the session at
\* CONFIRMATION or FINALIZED says the order total in that turn, so that no
\* call is finalized without the caller having heard the total.
C11_TotalDicho ==
    [][\A c \in Calls :
          (/\ TurnoReglas(c)
           /\ Existe(conversationState', c)
           /\ conversationState'[c].stage \in {"CONFIRMATION", "FINALIZED"})
             => "resumen_total" \in DichoEnTurno(c)]_vars

\* the stage graph both assistants name (part_000 line 87); the rule-based
\* assistant also uses 'UPSELL', placed here beside UPSELL_FINAL
GrafoEtapas ==
    << {"INITIAL_ORDER"}, {"CUSTOMIZATION"}, {"UPSELL_FINAL", "UPSELL"},
       {"CONFIRMATION"}, {"IDENTIFICATION"}, {"FINALIZED"} >>

\* the place of a stage in the graph; 0 for a value the graph does not name
Rango(stage) ==
    IF \E i \in DOMAIN GrafoEtapas : stage \in GrafoEtapas[i]
    THEN CHOOSE i \in DOMAIN GrafoEtapas : stage \in GrafoEtapas[i]
    ELSE 0

\* C12: between two stored values of one session of the conversation loop
\* the stage never moves to an earlier stage of the graph, except from
\* FINALIZED back to IDENTIFICATION (the guard) and on the edges that leave or
\* re-enter CONFIRMATION (the re-ask after a negative confirmation).
C12_SoloAdelante ==
    [][\A c \in Calls :
          (/\ variante \in {"llm", "reglas"}
           /\ Existe(conversationState, c)
           /\ Existe(conversationState', c))
             => LET antes == conversationState[c].stage
                    despues == conversationState'[c].stage
                IN  \/ Rango(despues) >= Rango(antes)
                    \/ antes = "FINALIZED" /\ despues = "IDENTIFICATION"
                    \/ antes = "CONFIRMATION"
                    \/ despues = "CONFIRMATION"
                    \* a value outside the graph has no earlier or later
                    \/ Rango(antes) = 0
                    \/ Rango(despues) = 0]_vars

\* attempts of makeApiCallWithRetry made so far for the request of call c
Intentos(c) == enCurso[c].i + 1

\* C13: the client never makes more than the documented ceiling of three
\* attempts for one call of the extractor, however many of them fail.
C13_TechoDeIntentos ==
    \A c \in DOMAIN enCurso :
        enCurso[c].pc \in {"axios", "espera"} => Intentos(c) <= 3

\* C14: no call of the extractor client ends by raising an exception into
\* the route that awaits it; every failure comes back as a value.
C14_NuncaLanza ==
    \A c \in DOMAIN enCurso : enCurso[c].pc # "rechazada"

\* the step in which the turn of call c ends without the text of the
\* oracle: the request to Gemini of that turn failed
FallaOraculo(c) ==
    /\ c \in DOMAIN enCurso
    /\ enCurso[c].pc = "ia"
    /\ enCurso[c].ruta = RutaConversacion
    /\ c \notin DOMAIN enCurso'
    /\ \A k \in DOMAIN respuesta'[c] :
          \A texto \in {TextoIA, CuerpoVacio.llm_response_text} :
              texto \notin Range(respuesta'[c][k].dice)

C16_TranscripcionPendiente ==
    [][\A c \in Calls :
          (FallaOraculo(c) /\ Existe(conversationState', c))
             => /\ "pendingTranscript" \in DOMAIN conversationState'[c]
                /\ conversationState'[c].pendingTranscript
                      = enCurso[c].SpeechResult]_vars

\* the step in which a request arrives for call c, which has no session
LlegaSinSesion(c) ==
    /\ c \notin DOMAIN enCurso
    /\ ~Existe(conversationState, c)
    /\ \/ c \in DOMAIN enCurso'
       \/ respuesta'[c] # respuesta[c]
       \/ Existe(conversationState', c)

\* C17: in the conversation loop a request for a call without a session
\* creates the session at INITIAL_ORDER with no items and total 0 and is
\* answered with the greeting, without a call of the assistant.
C17_PrimerTurno ==
    [][\A c \in Calls :
          (variante \in {"llm", "reglas"} /\ LlegaSinSesion(c))
             => /\ Existe(conversationState', c)
                /\ conversationState'[c].stage = "INITIAL_ORDER"
                /\ conversationState'[c].items = <<>>
                /\ conversationState'[c].total = 0
                /\ c \notin DOMAIN enCurso'
                /\ respuesta'[c] = << Twiml(<<"saludo">>, RutaConversacion, "",
                                            FALSE, 200, 0) >>]_vars

\* the step in which a request without SpeechResult arrives for call c
TurnoSilencioso(c) ==
    \/ TurnoSinVoz(c)
    \/ ProcessOrderBaseVoz(c, FALSE)
    \/ ProcessCustomizationsVoz(c, FALSE)

\* C18: a request without transcript for a call that has a session does not
\* call the assistant, leaves stage, items and total of the session alone
\* and is answered with a prompt that gathers again on the same route.
C18_TurnoSilencioso ==
    [][\A c \in Calls :
          (/\ Existe(conversationState, c)
           /\ llamada[c].estado = "activa"
           /\ TurnoSilencioso(c))
             => /\ c \notin DOMAIN enCurso'
                /\ Existe(conversationState', c)
                /\ conversationState'[c].stage = conversationState[c].stage
                /\ conversationState'[c].items = conversationState[c].items
                /\ conversationState'[c].total = conversationState[c].total
                /\ Len(respuesta'[c]) = 1
                /\ Continua(respuesta'[c][1])
                /\ llamada'[c].ruta = llamada[c].ruta]_vars

\* the item rows agregarOrden is to write for an item list: one per item
\* whose product exists (Database.js lines 308-323)
FilasEsperadas(items) ==
    LET Conocido(it) == FilasProducto(it.nombre) # {}
        conocidos == SelectSeq(items, Conocido)
    IN  [ i \in DOMAIN conocidos |->
            [ producto |-> conocidos[i].nombre,
              cantidad |-> IF "cantidad" \in DOMAIN conocidos[i]
                           THEN conocidos[i].cantidad ELSE 1 ] ]

\* the item rows stored for the order id
FilasGuardadas(id) ==
    LET De(f) == f.orden_id = id
        filas == SelectSeq(orden_items, De)
    IN  [ i \in DOMAIN filas |->
            [producto |-> filas[i].producto, cantidad |-> filas[i].cantidad] ]

\* C19: every stored order is stored with all the items of the call of
\* agregarOrden that wrote it (one row per item of a known product in
\* Database.js, the items column in part_003), and every stored item row
\* belongs to a stored order.
C19_EscrituraAtomica ==
    /\ \A i \in DOMAIN ordenes :
          \E j \in InvocacionesDe(ordenes[i].callSid) :
             IF variante = "transaccional"
             THEN FilasGuardadas(ordenes[i].id)
                     = FilasEsperadas(invocaciones[j].items)
             ELSE ordenes[i].items = invocaciones[j].items
    /\ \A k \in DOMAIN orden_items :
          \E i \in DOMAIN ordenes : ordenes[i].id = orden_items[k].orden_id

\* one order is stored with its two item rows, and another call's
\* transaction was rolled back and left nothing
C19_Testigo ==
    /\ variante = "transaccional"
    /\ \E i \in DOMAIN ordenes : Len(FilasGuardadas(ordenes[i].id)) = 2
    /\ \E j \in DOMAIN invocaciones :
          /\ invocaciones[j].resultado = "error"
          /\ OrdenesDe(invocaciones[j].callSid) = {}
          /\ FilasEsperadas(invocaciones[j].items) # <<>>

\* the session of call c in a registry: <<>> when there is none
SesionDe(cs, c) == IF Existe(cs, c) THEN <<cs[c]>> ELSE <<>>

PeticionDe(ec, c) == IF c \in DOMAIN ec THEN <<ec[c]>> ELSE <<>>

\* the step belongs to call c: its request, its response or its place in
\* the dialogue changes
Actua(c) ==
    \/ PeticionDe(enCurso', c) # PeticionDe(enCurso, c)
    \/ respuesta'[c] # respuesta[c]
    \/ llamada'[c] # llamada[c]

\* C20: a step made for one call neither creates, changes nor removes the
\* session of another call, and every session is filed under its own
\* CallSid.
C20_AislamientoEntreLlamadas ==
    [][/\ \A c, d \in Calls :
            (c # d /\ Actua(c))
               => SesionDe(conversationState', d) = SesionDe(conversationState, d)
       /\ \A c \in DOMAIN conversationState' :
            conversationState'[c].callSid = c]_vars

\* two calls have sessions at the same time, at different stages and with
\* different items
C20_Testigo ==
    \E c, d \in DOMAIN conversationState :
        /\ c # d
        /\ conversationState[c].stage # conversationState[d].stage
        /\ conversationState[c].items # <<>>
        /\ conversationState[d].items # conversationState[c].items
        /\ conversationState[d].stage # "INITIAL_ORDER"

-----------------------------------------------------------------------------
(* C21 .. C30 *)

\* the names of the menu the Gemini assistant works with
NombresDelMenu == {getMenuContexto[k].nombre : k \in DOMAIN getMenuContexto}

\* C21: after the reconciliation of an oracle result no session of the
\* Gemini loop holds an item whose name is not in the menu.
C21_DesconocidosDescartados ==
    variante = "llm" =>
        \A c \in DOMAIN conversationState :
            \A i \in DOMAIN conversationState[c].items :
                conversationState[c].items[i] \in NombresDelMenu

\* C22: from one stored value of a session to the next, the customer name
\* and phone of the conversation loop either stay as they were or take a
\* non-empty value that the turn supplied.
C22_IdentidadRetenida ==
    [][\A c \in Calls :
          (/\ variante \in {"llm", "reglas"}
           /\ Existe(conversationState, c)
           /\ Existe(conversationState', c))
             => LET antes == conversationState[c]
                    despues == conversationState'[c]
                IN  /\ \/ despues.nombreCliente = antes.nombreCliente
                       \/ despues.nombreCliente = JuanPerez
                    /\ \/ despues.telefonoCliente = antes.telefonoCliente
                       \/ despues.telefonoCliente = Telefono]_vars


\* the stages a session may be in
EtapasDeSesion ==
    {"INITIAL_ORDER", "CUSTOMIZATION", "UPSELL", "UPSELL_FINAL", "PAYMENT",
     "CONFIRMATION", "IDENTIFICATION", "FINALIZED"}

\* C23: the stage of every session of the conversation loop is one of the
\* eight stages; no oracle result leaves it undefined or outside them.
C23_EtapaEnElConjunto ==
    variante \in {"llm", "reglas"} =>
        \A c \in DOMAIN conversationState :
            conversationState[c].stage \in EtapasDeSesion

\* the step in which the Gemini call of c settles with the parsed body "{}"
RetornaCuerpoVacio(c) ==
    /\ variante = "llm"
    /\ c \in DOMAIN enCurso
    /\ enCurso[c].pc = "ia"
    /\ TrasIA(c, conversationState,
              procesarConversacion(enCurso[c].estadoActual, FALSE, CuerpoVacio))

\* C24: an oracle response that lacks the next stage, the items and the
\* response text is handled as an oracle failure: the caller hears the
\* apology and the session stays as it was before the turn.
C24_CuerpoIncompletoEsFallo ==
    [][\A c \in Calls :
          RetornaCuerpoVacio(c) =>
            /\ respuesta'[c][1].dice = <<"disculpa_ia">>
            /\ conversationState'[c] = enCurso[c].estadoActual]_vars


\* the failures of a request that waiting does not cure
NoTransitorios == {"400"}

\* C25: the Gemini client never waits to repeat a request that failed with
\* a non-transient error.
C25_SinReintentoNoTransitorio ==
    \A c \in DOMAIN enCurso :
        enCurso[c].pc = "espera" => enCurso[c].lastError \notin NoTransitorios


\* C26: a session of the rule-based loop that holds a customization holds
\* an item of the bar area.
C26_PersonalizacionConBarra ==
    variante = "reglas" =>
        \A c \in DOMAIN conversationState :
            conversationState[c].personalizaciones # <<>> =>
                \E i \in DOMAIN conversationState[c].items :
                    AreaProducto(conversationState[c].items[i]) = "barra"


\* the item names the database holds for the order id
ItemsGuardados(id) ==
    IF variante = "transaccional"
    THEN {orden_items[i].producto :
             i \in {k \in DOMAIN orden_items : orden_items[k].orden_id = id}}
    ELSE UNION {Range(ordenes[j].items) :
                   j \in {k \in DOMAIN ordenes : ordenes[k].id = id}}

\* the item names the notifications dispatched for the order id carry
ItemsNotificados(id) ==
    UNION {Range(notificaciones[n].items) :
              n \in {k \in DOMAIN notificaciones : notificaciones[k].ordenId = id}}

\* C27: every notification dispatched is for an order whose row is stored
\* and whose write was returned to the route, and the notifications of a
\* returned order carry the items stored for it; a write that failed or was
\* never made has no notification.
C27_NotificacionTrasEscritura ==
    /\ \A n \in DOMAIN notificaciones :
          /\ \E j \in DOMAIN ordenes : ordenes[j].id = notificaciones[n].ordenId
          /\ \E i \in DOMAIN invocaciones :
                /\ invocaciones[i].resultado = "devuelta"
                /\ invocaciones[i].ordenId = notificaciones[n].ordenId
    /\ \A i \in DOMAIN invocaciones :
          invocaciones[i].resultado = "devuelta" =>
              ItemsNotificados(invocaciones[i].ordenId)
                  = ItemsGuardados(invocaciones[i].ordenId)

\* one write failed, another was returned and its areas were notified
C27_Testigo ==
    /\ notificaciones # <<>>
    /\ \E i \in DOMAIN invocaciones : invocaciones[i].resultado = "error"
    /\ \E i \in DOMAIN invocaciones : invocaciones[i].resultado = "devuelta"


\* the step in which the write of call c is returned and a dispatch of its
\* notifications is rejected
DespachoRechazado(c) ==
    /\ c \in DOMAIN enCurso
    /\ enCurso[c].pc \in {"db", "tx"}
    /\ c \notin DOMAIN enCurso'
    /\ \E n \in DOMAIN notificaciones' \ DOMAIN notificaciones :
          notificaciones'[n].rechazada

\* C28: when a dispatch of a notification is rejected after the write was
\* returned, the response of the turn is still the closing utterance with
\* the identifier of the order, the order is stored, the call has no session
\* left and the call ends.
C28_FalloDeNotificacionInvisible ==
    [][\A c \in Calls :
          DespachoRechazado(c) =>
            LET id == notificaciones'[Len(notificaciones')].ordenId
                r == respuesta'[c][Len(respuesta'[c])]
            IN  /\ r = RespuestaOrdenRegistrada(enCurso[c], id)
                /\ r.codigo = 200
                /\ "orden_registrada" \in Range(r.dice)
                /\ \E j \in DOMAIN ordenes' :
                      ordenes'[j].id = id /\ ordenes'[j].callSid = c
                /\ ~Existe(conversationState', c)
                /\ llamada'[c].estado = "terminada"]_vars

\* an order is stored, its call has ended without a session, and a
\* dispatch for it was rejected
C28_Testigo ==
    \E n \in DOMAIN notificaciones :
        /\ notificaciones[n].rechazada
        /\ \E j \in DOMAIN ordenes :
              /\ ordenes[j].id = notificaciones[n].ordenId
              /\ llamada[ordenes[j].callSid].estado = "terminada"
              /\ ~Existe(conversationState, ordenes[j].callSid)


\* the requests of call c that are suspended on the oracle
EnProgreso(c) ==
    (IF c \in DOMAIN enCurso /\ enCurso[c].pc = "ia" /\ variante = "llm"
     THEN {enCurso[c]} ELSE {})
    \cup (IF c \in DOMAIN duplicada /\ duplicada[c].pc = "ia"
          THEN {duplicada[c]} ELSE {})

\* C29: no call has two turns in progress, and the session a turn in
\* progress was handed is the session the registry holds, so what the turn
\* writes at its end derives from the session the previous turn left.
C29_TurnosEnSerie ==
    \A c \in Calls :
        /\ Cardinality(EnProgreso(c)) <= 1
        /\ \A r \in EnProgreso(c) :
              Existe(conversationState, c) /\ r.estadoActual = conversationState[c]


\* the turn of call c is suspended on a request to the oracle or on the
\* backoff delay between two attempts
Suspendida(c) ==
    /\ c \in DOMAIN enCurso
    /\ \/ variante = "llm" /\ enCurso[c].pc = "ia"
       \/ variante = "gemini" /\ enCurso[c].pc \in {"axios", "espera"}

\* C30: while the turn of one call is suspended on the oracle or on a
\* backoff delay, a turn of any other call that has not ended can start,
\* and a turn of another call that is in progress can take its next step.
C30_EsperaNoBloquea ==
    \A c, d \in Calls :
        (c # d /\ Suspendida(c)) =>
            /\ (d \notin DOMAIN enCurso /\ llamada[d].estado # "terminada")
                  => ENABLED (TurnoLLM(d) \/ TwilioProcess(d))
            /\ d \in DOMAIN enCurso => ENABLED Peticion(d)

\* call CA1 waits in the backoff after a failed attempt while CA2, which is
\* also in progress, waits for its own request to the oracle
C30_Testigo ==
    /\ Suspendida("CA1")
    /\ enCurso["CA1"].pc = "espera"
    /\ Suspendida("CA2")
    /\ enCurso["CA2"].pc = "axios"


-----------------------------------------------------------------------------
(* C31 .. C38 *)

\* the two preparation areas
AreasDePreparacion == {"barra", "cocina"}

\* C31: every notification dispatched is addressed to the bar or to the
\* kitchen.
C31_AreasDeNotificacion ==
    \A n \in DOMAIN notificaciones :
        notificaciones[n].area \in AreasDePreparacion


\* C32: db.agregarOrden is only ever called with a non-empty item list, and
\* every stored order of the conversation loop has at least one item.
C32_SinOrdenVacia ==
    /\ \A i \in DOMAIN invocaciones : invocaciones[i].items # <<>>
    /\ variante \in {"llm", "reglas"} =>
          \A j \in DOMAIN ordenes : ordenes[j].items # <<>>


\* the steps of call c that run getOrCreateState or createInitialState
CreaSesion(c) ==
    TurnoSinVoz(c) \/ TurnoLLM(c) \/ TurnoReglas(c) \/ TwilioVoice(c)

\* C33: the step in which a request whose session was deleted meanwhile runs
\* updateState and answers leaves the registry as it was, and an entry appears in the registry only in a
\* step that runs getOrCreateState or createInitialState.
C33_UpdateNoResucita ==
    [][\A c \in Calls :
          /\ (/\ ~Existe(conversationState, c)
              /\ c \in DOMAIN duplicada
              /\ duplicada[c].pc = "ia"
              /\ duplicada'[c].pc = "respondida")
                => conversationState' = conversationState
          /\ (~Existe(conversationState, c) /\ Existe(conversationState', c))
                => CreaSesion(c)]_vars

\* the order of the call was stored and its session deleted while a second
\* request was suspended; that request then ran updateState and answered
C33_Testigo ==
    \E c \in DOMAIN duplicada :
        /\ duplicada[c].pc = "respondida"
        /\ ~duplicada[c].habiaSesion
        /\ ~Existe(conversationState, c)
        /\ OrdenesDe(c) # {}


\* the item names stored for the order id, in the order they were given
ItemsEnOrden(id) ==
    IF variante = "transaccional"
    THEN LET De(f) == f.orden_id = id
             filas == SelectSeq(orden_items, De)
         IN  [k \in DOMAIN filas |-> filas[k].producto]
    ELSE LET j == CHOOSE k \in DOMAIN ordenes : ordenes[k].id = id
         IN  ordenes[j].items

\* the preparation area the database gives to a stored item
AreaGuardada(nombre) ==
    IF variante = "transaccional"
    THEN productosBD[CHOOSE i \in FilasProducto(nombre) : TRUE].area_preparacion
    ELSE AreaMenu(nombre)

\* C34: for every order returned by the write, the notifications dispatched
\* for it have pairwise different areas, their areas are exactly the areas
\* of the order's items, and each carries the items of its area in the
\* order they have in the order; an order without items has none.
C34_ParticionPorArea ==
    \A i \in DOMAIN invocaciones :
        invocaciones[i].resultado = "devuelta" =>
            LET id == invocaciones[i].ordenId
                its == ItemsEnOrden(id)
                DeOrden(n) == n.ordenId = id
                ns == SelectSeq(notificaciones, DeOrden)
            IN  /\ \A a, b \in DOMAIN ns : a # b => ns[a].area # ns[b].area
                /\ {ns[a].area : a \in DOMAIN ns}
                      = {AreaGuardada(its[k]) : k \in DOMAIN its}
                /\ \A a \in DOMAIN ns :
                      LET DelArea(n) == AreaGuardada(n) = ns[a].area
                      IN  ns[a].items = SelectSeq(its, DelArea)

\* a returned order whose items went to two areas, and one without items
C34_Testigo ==
    /\ \E a, b \in DOMAIN notificaciones :
          /\ notificaciones[a].ordenId = notificaciones[b].ordenId
          /\ notificaciones[a].area # notificaciones[b].area
    /\ \E i \in DOMAIN invocaciones :
          /\ invocaciones[i].resultado = "devuelta"
          /\ invocaciones[i].items = <<>>


\* the intents of the rule-based assistant that only answer
SoloResponden == {"PREGUNTANDO", "CONFIRMANDO_SI", "DESCONOCIDO"}

\* what the caller hears in a turn of one of those intents
DichoSinCambio == {"respuesta_pregunta", "que_mas", "si_a_que", "no_entendi"}

\* a turn of call c with the rule-based assistant whose transcript is a
\* menu question, a bare "yes" or nothing the rules recognize
TurnoQueSoloResponde(c) ==
    /\ variante = "reglas"
    /\ PuedeLlegar(c, RutaConversacion)
    /\ \E t \in Transcripciones :
          /\ determinarIntencion(t) \in SoloResponden
          /\ LET cs == getOrCreateState(conversationState, Caller(c), c)
             IN  TrasIA(c, cs, procesarConversacionReglas(t, cs[c]))

\* C35: a turn of the rule-based assistant classified as a question, an
\* affirmative answer or an unrecognized utterance leaves the session of the
\* call (stage, items, customizations, total, name and phone) as it was
\* before the turn.
C35_SoloResponder ==
    [][\A c \in Calls :
          TurnoQueSoloResponde(c) =>
            /\ Existe(conversationState', c)
            /\ conversationState'[c]
                  = getOrCreateState(conversationState, Caller(c), c)[c]]_vars

\* a caller with a customized order has just been answered a question or a
\* bare "yes"
C35_Testigo ==
    \E c \in DOMAIN conversationState :
        /\ variante = "reglas"
        /\ conversationState[c].items # <<>>
        /\ conversationState[c].personalizaciones # <<>>
        /\ Len(respuesta[c]) = 1
        /\ Range(respuesta[c][1].dice) \subseteq DichoSinCambio


\* the four statuses of the admin page, and the one that follows each
EstadosDeOrden == <<"recibida", "en_preparacion", "lista_para_servir", "completada">>

PasoDeEstado(antes, despues) ==
    \E k \in 1..(Len(EstadosDeOrden) - 1) :
        antes = EstadosDeOrden[k] /\ despues = EstadosDeOrden[k + 1]

\* C36: the status of a stored order is always one of recibida,
\* en_preparacion, lista_para_servir, completada, and a step that changes it
\* moves it to the next of the four: never backwards, never over a step,
\* never out of completada.
C36_CicloDeEstado ==
    [][\A j \in DOMAIN ordenes' :
          /\ ordenes'[j].estado \in Range(EstadosDeOrden)
          /\ j \in DOMAIN ordenes =>
                \/ ordenes'[j].estado = ordenes[j].estado
                \/ PasoDeEstado(ordenes[j].estado, ordenes'[j].estado)]_vars

\* C37: a request to an admin route whose X-API-Key header is absent, empty
\* or different from ADMIN_API_KEY is answered with 401 and leaves every
\* order as it was, whatever ADMIN_API_KEY holds; and a step that changes
\* the status of an order or removes an order is the 200 answer to a request
\* that carried the configured key.
C37_AdminProtegido ==
    [][/\ (/\ respuestaAdmin' # respuestaAdmin
           /\ ~(Truthy(respuestaAdmin'.apiKey) /\ respuestaAdmin'.apiKey = ADMIN_API_KEY))
          => /\ respuestaAdmin'.codigo = 401
             /\ ordenes' = ordenes
             /\ orden_items' = orden_items
       /\ (\E j \in DOMAIN ordenes :
              \/ j \notin DOMAIN ordenes'
              \/ ordenes'[j].estado # ordenes[j].estado)
          => /\ respuestaAdmin'.codigo = 200
             /\ Truthy(respuestaAdmin'.apiKey)
             /\ respuestaAdmin'.apiKey = ADMIN_API_KEY]_vars

\* an order is stored, ADMIN_API_KEY is not configured, and the request the
\* admin page makes with the text of the unset key was answered 401
C37_Testigo ==
    /\ ADMIN_API_KEY = Undefined
    /\ respuestaAdmin.codigo = 401
    /\ respuestaAdmin.apiKey = TextoUndefined
    /\ ordenes # <<>>
    /\ \A j \in DOMAIN ordenes : ordenes[j].estado = "recibida"


\* the continuation of call c changes in the step
Avanza(c) == c \notin DOMAIN enCurso' \/ enCurso'[c] # enCurso[c]

\* C38: when the axios.post of an attempt settles, makeApiCallWithRetry
\* either is over (it returned the data of this attempt, or threw after the
\* last attempt: the request is answered with no further attempt and no
\* delay) or, the attempt having failed with attempts remaining, sleeps
\* once; a delay is entered only from a failed attempt that is not the last
\* one and is followed by the next attempt; attempt 0 starts only from the
\* call of procesarOrden.
C38_ReintentoHastaExito ==
    [][\A c \in Calls :
          /\ (c \in DOMAIN enCurso /\ enCurso[c].pc = "axios" /\ Avanza(c))
             => \/ c \notin DOMAIN enCurso'
                \/ /\ enCurso'[c].pc = "espera"
                   /\ enCurso'[c].lastError \in ErroresAxios
                   /\ enCurso'[c].i = enCurso[c].i
                   /\ enCurso[c].i < maxRetries - 1
          /\ (c \in DOMAIN enCurso' /\ enCurso'[c].pc = "espera")
             => /\ c \in DOMAIN enCurso
                /\ enCurso[c].pc \in {"axios", "espera"}
                /\ enCurso'[c].i < maxRetries - 1
          /\ (c \in DOMAIN enCurso /\ enCurso[c].pc = "espera" /\ Avanza(c))
             => /\ c \in DOMAIN enCurso'
                /\ enCurso'[c].pc = "axios"
                /\ enCurso'[c].i = enCurso[c].i + 1
                /\ enCurso'[c].i < maxRetries
          /\ (c \in DOMAIN enCurso' /\ enCurso'[c].pc = "axios"
                /\ (c \notin DOMAIN enCurso \/ enCurso[c] # enCurso'[c]))
             => /\ c \in DOMAIN enCurso
                /\ \/ enCurso[c].pc = "menu" /\ enCurso'[c].i = 0
                   \/ enCurso[c].pc = "espera"]_vars

\* every delay the loop allows has been slept and the last attempt is in
\* flight for one call, while the request of the other call, which went
\* through the loop, has been answered and has nothing left to run
C38_Testigo ==
    /\ variante = "gemini"
    /\ apiKey
    /\ \E c \in Calls :
          /\ c \in DOMAIN enCurso
          /\ enCurso[c].pc = "axios"
          /\ enCurso[c].i = maxRetries - 1
    /\ \E c \in Calls :
          /\ c \notin DOMAIN enCurso
          /\ respuesta[c] # <<>>

=============================================================================
